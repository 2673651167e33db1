-------------------------- MODULE PatternTextProofs --------------------------
(***************************************************************************)
(* Proofs about PatternScan and PatternText, for every alphabet, signature *)
(* and memory.                                                             *)
(*                                                                         *)
(* The scan: the shift table is defined by "the last place where", so the  *)
(* proofs first need that a bounded set of integers has a last element.    *)
(* What is then essential is ShiftSkipsNoMatch: between a mismatch and the *)
(* place the table leads to, the pattern would have an entry that differs  *)
(* from the byte the table was asked for.                                  *)
(*                                                                         *)
(* The text: by induction over the tokens, each is in the text from its    *)
(* own place, behind one space (TextLayout).  So the character the parser  *)
(* looks at is a wildcard, a first digit, a second digit or a space, and   *)
(* what follows it tells a first digit from a second (LookedAt); each      *)
(* step then takes the one that it is meant for (TextInv).                 *)
(***************************************************************************)
EXTENDS PatternText, WellFoundedInduction, TLAPS

\* A nonempty set of integers that ends at some integer has a last element.
LEMMA LastOne ==
    ASSUME NEW a \in Int, NEW b \in Int,
           NEW S, S \subseteq a .. b, S # {}
    PROVE  \E m \in S : \A n \in S : n <= m
<1> DEFINE T == {k \in Nat : b - k \in S}
<1>1. T # {}
  <2>1. PICK n \in S : TRUE OBVIOUS
  <2>2. n \in Int /\ n <= b BY <2>1
  <2>3. b - n \in Nat /\ b - (b - n) = n BY <2>2
  <2>4. b - n \in T BY <2>3
  <2>. QED BY <2>4
<1>2. PICK k \in T : \A l \in T : ~ (<<l, k>> \in OpToRel(<, Nat))
  <2>1. T \subseteq Nat OBVIOUS
  <2>2. IsWellFoundedOn(OpToRel(<, Nat), Nat) BY NatLessThanWellFounded
  <2> HIDE DEF T
  <2>. QED BY <1>1, <2>1, <2>2, WFMin
<1>3. \A l \in T : k <= l
  <2> SUFFICES ASSUME NEW l \in T, ~(k <= l) PROVE FALSE
    OBVIOUS
  <2>1. l < k /\ k \in Nat /\ l \in Nat OBVIOUS
  <2>2. <<l, k>> \in OpToRel(<, Nat) BY <2>1 DEF OpToRel
  <2>. QED BY <1>2, <2>2
<1>4. \A n \in S : n <= b - k
  <2> SUFFICES ASSUME NEW n \in S PROVE n <= b - k
    OBVIOUS
  <2>1. n \in Int /\ n <= b OBVIOUS
  <2>2. b - n \in Nat /\ b - (b - n) = n BY <2>1
  <2>3. b - n \in T BY <2>2
  <2>. QED BY <1>3, <2>1, <2>3
<1>. QED BY <1>4

------------------------------------------------------------------------------

\* wild_card_idx is what its definition asks for.
LEMMA WildCardIdx ==
    ASSUME TypeOK
    PROVE  /\ wild_card_idx \in -1 .. max_idx - 1
           /\ \A j \in wild_card_idx + 1 .. max_idx - 1 : sig[j] # Wild
<1> DEFINE S == {p \in -1 .. max_idx - 1 : p # -1 => sig[p] = Wild}
<1>1. max_idx \in Nat BY ScanAssumption DEF TypeOK, max_idx
<1>2. -1 \in S BY <1>1
<1>3. PICK m \in S : \A n \in S : n <= m
  <2>1. S \subseteq -1 .. max_idx - 1 OBVIOUS
  <2>2. -1 \in Int /\ max_idx - 1 \in Int BY <1>1
  <2> HIDE DEF S
  <2>. QED BY <1>2, <2>1, <2>2, LastOne
<1>4. \A j \in m + 1 .. max_idx - 1 : sig[j] # Wild
  <2> SUFFICES ASSUME NEW j \in m + 1 .. max_idx - 1, sig[j] = Wild PROVE FALSE
    OBVIOUS
  <2>1. m \in Int /\ -1 <= m BY <1>1
  <2>2. j \in S BY <1>1, <2>1
  <2>. QED BY <1>1, <1>3, <2>1, <2>2
<1>. QED BY <1>1, <1>4 DEF wild_card_idx

\* shift_table moves the pattern on, and not beyond the last entry that may
\* equal the byte it is asked for.
LEMMA ShiftTable ==
    ASSUME TypeOK, NEW b
    PROVE  /\ shift_table(b) \in 1 .. length
           /\ \A j \in 0 .. max_idx - 1 :
                max_idx - j < shift_table(b) => sig[j] # b /\ sig[j] # Wild
<1> DEFINE w == wild_card_idx
           S == {p \in w .. max_idx - 1 : p # w => sig[p] = b}
           LastEqual(p) == /\ p # w => sig[p] = b
                      /\ \A j \in p + 1 .. max_idx - 1 : sig[j] # b
           last == CHOOSE p \in w .. max_idx - 1 : LastEqual(p)
<1>1. max_idx \in Nat BY ScanAssumption DEF TypeOK, max_idx
<1>2. /\ w \in -1 .. max_idx - 1
      /\ \A j \in w + 1 .. max_idx - 1 : sig[j] # Wild
  BY WildCardIdx
<1> HIDE DEF w
<1>3. \E p \in w .. max_idx - 1 : LastEqual(p)
  <2>1. w \in S BY <1>1, <1>2
  <2>2. PICK m \in S : \A n \in S : n <= m
    <3>1. S \subseteq w .. max_idx - 1 OBVIOUS
    <3>2. w \in Int /\ max_idx - 1 \in Int BY <1>1, <1>2
    <3> HIDE DEF S
    <3>. QED BY <2>1, <3>1, <3>2, LastOne
  <2>3. \A j \in m + 1 .. max_idx - 1 : sig[j] # b
    <3> SUFFICES ASSUME NEW j \in m + 1 .. max_idx - 1, sig[j] = b PROVE FALSE
      OBVIOUS
    <3>1. m \in Int /\ w <= m BY <1>1, <1>2
    <3>2. j \in S BY <1>1, <1>2, <3>1
    <3>. QED BY <1>1, <2>2, <3>1, <3>2
  <2>. QED BY <2>3
<1>4. last \in w .. max_idx - 1 /\ LastEqual(last) BY <1>3
<1>5. shift_table(b) = max_idx - last BY DEF shift_table, w
<1> HIDE DEF last
<1>6. last \in Int /\ -1 <= last /\ w <= last /\ last <= max_idx - 1 BY <1>1, <1>2, <1>4
<1>7. shift_table(b) \in 1 .. length
  <2>1. length = max_idx + 1 /\ length \in Nat BY ScanAssumption DEF TypeOK, max_idx
  <2>. QED BY <1>1, <1>5, <1>6, <2>1
<1>8. ASSUME NEW j \in 0 .. max_idx - 1, max_idx - j < shift_table(b)
      PROVE  sig[j] # b /\ sig[j] # Wild
  <2>1. last < j BY <1>1, <1>5, <1>6, <1>8
  <2>2. j \in last + 1 .. max_idx - 1 /\ j \in w + 1 .. max_idx - 1
    BY <1>1, <1>2, <1>6, <2>1
  <2>. QED BY <1>2, <1>4, <2>2
<1>. QED BY <1>7, <1>8

\* A shift after a mismatch jumps over no match.
LEMMA ShiftSkipsNoMatch ==
    ASSUME TypeOK, current_idx <= scan_end,
           NEW p \in 0 .. scan_end, current_idx < p,
           p < current_idx + shift_table(memory[current_idx + max_idx])
    PROVE  \E j \in 0 .. max_idx : ~Fits(p, j)
<1> DEFINE b == memory[current_idx + max_idx]
           j == max_idx - (p - current_idx)
<1>1. /\ max_idx \in Nat
      /\ current_idx \in Nat
      /\ scan_end \in Nat
  BY ScanAssumption DEF TypeOK, max_idx, scan_end
<1>2. shift_table(b) \in 1 .. max_idx + 1
  <2>1. length = max_idx + 1 BY ScanAssumption DEF TypeOK, max_idx
  <2>. QED BY <2>1, ShiftTable
<1>3. j \in Int /\ j < max_idx /\ max_idx - j < shift_table(b) /\ p + j = current_idx + max_idx
  BY <1>1, <1>2
<1>4. j \in 0 .. max_idx - 1 BY <1>1, <1>2, <1>3
<1>5. sig[j] # b /\ sig[j] # Wild BY <1>3, <1>4, ShiftTable
<1>6. ~Fits(p, j) BY <1>3, <1>5 DEF Fits
<1>. QED BY <1>1, <1>4, <1>6

------------------------------------------------------------------------------

\* While scan_pattern compares, no place before the current one matches and the
\* entries behind sig_idx fit; what it has found matches.  With the types it
\* is inductive; FirstMatch is not, as it says nothing before the end.
Scanned ==
    /\ \A p \in 0 .. scan_end : p < current_idx => \E j \in 0 .. max_idx : ~Fits(p, j)
    /\ pc = "scan" =>
        /\ result = None
        /\ current_idx <= scan_end => \A j \in sig_idx + 1 .. max_idx : Fits(current_idx, j)
    /\ pc = "done" =>
        IF result = None
        THEN current_idx > scan_end
        ELSE /\ result = current_idx
             /\ result <= scan_end
             /\ \A j \in 0 .. max_idx : Fits(result, j)

ScanInv == TypeOK /\ Scanned

\* The lengths are numbers, and the pattern is not longer than the memory.
LEMMA Sizing ==
    ASSUME TypeOK
    PROVE  /\ max_idx \in Nat /\ length = max_idx + 1
           /\ scan_end \in Nat /\ module_size = scan_end + length
<1>. QED BY ScanAssumption DEF TypeOK, max_idx, scan_end

LEMMA InitScanInv == Init => ScanInv
<1> SUFFICES ASSUME Init PROVE ScanInv
  OBVIOUS
<1>1. length \in Nat \ {0} /\ max_idx = length - 1 BY ScanAssumption DEF Init, max_idx
<1>2. TypeOK BY <1>1 DEF Init, TypeOK
<1>3. Scanned BY <1>1, <1>2, Sizing DEF Init, Scanned
<1>. QED BY <1>2, <1>3 DEF ScanInv

LEMMA NextScanInv == ScanInv /\ [Next]_vars => ScanInv'
<1> SUFFICES ASSUME ScanInv, [Next]_vars PROVE ScanInv'
  OBVIOUS
<1>1. /\ max_idx \in Nat /\ length = max_idx + 1
      /\ scan_end \in Nat /\ module_size = scan_end + length
  BY Sizing DEF ScanInv
<1>2. ASSUME UNCHANGED input
      PROVE  /\ max_idx' = max_idx /\ scan_end' = scan_end /\ length' = length
             /\ \A p, j : Fits(p, j)' = Fits(p, j)
  BY <1>2 DEF input, max_idx, scan_end, Fits
<1>3. CASE Mismatch
  <2>1. shift_table(memory[current_idx + max_idx]) \in 1 .. length
    BY ShiftTable DEF ScanInv
  <2>2. current_idx' \in Nat /\ current_idx < current_idx' /\ sig_idx' = max_idx
    BY <1>1, <2>1, <1>3 DEF Mismatch, ScanInv, TypeOK
  <2>3. TypeOK' BY <1>1, <1>2, <2>2, <1>3 DEF Mismatch, ScanInv, TypeOK, input
  <2>4. ASSUME NEW p \in 0 .. scan_end, p < current_idx'
        PROVE  \E j \in 0 .. max_idx : ~Fits(p, j)
    <3>1. CASE p < current_idx BY <3>1 DEF ScanInv, Scanned
    <3>2. CASE p = current_idx
      <4>1. sig_idx \in 0 .. max_idx BY DEF ScanInv, TypeOK
      <4>. QED BY <3>2, <4>1, <1>3 DEF Mismatch
    <3>3. CASE current_idx < p
      BY <2>4, <3>3, <1>3, ShiftSkipsNoMatch DEF Mismatch, ScanInv
    <3>. QED BY <1>1, <3>1, <3>2, <3>3 DEF ScanInv, TypeOK
  <2>5. Scanned' BY <1>1, <1>2, <2>2, <2>4, <1>3 DEF Mismatch, ScanInv, Scanned
  <2>. QED BY <2>3, <2>5 DEF ScanInv
<1>4. CASE CompareNext
  <2>1. TypeOK' BY <1>1, <1>2, <1>4 DEF CompareNext, ScanInv, TypeOK, input
  <2>2. \A j \in sig_idx' + 1 .. max_idx : j = sig_idx \/ j \in sig_idx + 1 .. max_idx
    BY <1>1, <1>4 DEF CompareNext, ScanInv, TypeOK
  <2>3. Scanned' BY <1>2, <2>2, <1>4 DEF CompareNext, ScanInv, Scanned
  <2>. QED BY <2>1, <2>3 DEF ScanInv
<1>5. CASE Found
  <2>1. TypeOK' BY <1>1, <1>2, <1>5 DEF Found, ScanInv, TypeOK, input
  <2>2. \A j \in 0 .. max_idx : j = 0 \/ j \in 1 .. max_idx BY <1>1
  <2>3. \A j \in 0 .. max_idx : Fits(current_idx, j)
    BY <2>2, <1>5 DEF Found, ScanInv, Scanned
  <2>4. result' # None BY <1>5, ScanAssumption DEF Found, ScanInv, TypeOK
  <2>5. Scanned' BY <1>2, <2>3, <2>4, <1>5 DEF Found, ScanInv, Scanned
  <2>. QED BY <2>1, <2>5 DEF ScanInv
<1>6. CASE NotFound
  <2>1. TypeOK' BY <1>2, <1>6 DEF NotFound, ScanInv, TypeOK, input
  <2>2. Scanned' BY <1>2, <1>6 DEF NotFound, ScanInv, Scanned
  <2>. QED BY <2>1, <2>2 DEF ScanInv
<1>7. CASE UNCHANGED vars
  <2>1. TypeOK' BY <1>2, <1>7 DEF vars, input, ScanInv, TypeOK
  <2>2. Scanned' BY <1>2, <1>7 DEF vars, ScanInv, Scanned
  <2>. QED BY <2>1, <2>2 DEF ScanInv
<1>. QED BY <1>3, <1>4, <1>5, <1>6, <1>7 DEF Next

LEMMA ScanInvFirstMatch == ScanInv => FirstMatch
<1> SUFFICES ASSUME ScanInv, pc = "done"
             PROVE  IF result = None
                    THEN Matches(scan_end) = {}
                    ELSE result \in Matches(scan_end) /\ Matches(result - 1) = {}
  BY DEF FirstMatch
<1>1. max_idx \in Nat /\ scan_end \in Nat BY Sizing DEF ScanInv
<1>2. \A p \in 0 .. scan_end : p < current_idx => \E j \in 0 .. max_idx : ~Fits(p, j)
  BY DEF ScanInv, Scanned
<1>3. CASE result = None
  <2>1. current_idx > scan_end BY <1>3 DEF ScanInv, Scanned
  <2>2. \A p \in 0 .. scan_end : p < current_idx BY <1>1, <2>1 DEF ScanInv, TypeOK
  <2>. QED BY <1>2, <1>3, <2>2 DEF Matches
<1>4. CASE result # None
  <2>1. /\ result = current_idx /\ result <= scan_end
        /\ \A j \in 0 .. max_idx : Fits(result, j)
    BY <1>4 DEF ScanInv, Scanned
  <2>2. result \in 0 .. scan_end BY <1>1, <2>1 DEF ScanInv, TypeOK
  <2>3. \A p \in 0 .. result - 1 : p \in 0 .. scan_end /\ p < current_idx
    BY <1>1, <2>1, <2>2
  <2>. QED BY <1>2, <1>4, <2>1, <2>2, <2>3 DEF Matches
<1>. QED BY <1>3, <1>4

\* The scan keeps to its types: it compares no byte outside the memory.
THEOREM TypeCorrect == Spec => []TypeOK
<1>1. ScanInv => TypeOK BY DEF ScanInv
<1>. QED BY <1>1, InitScanInv, NextScanInv, PTL DEF Spec

\* scan_pattern returns the first match, whatever the alphabet, the pattern,
\* its wildcards and the memory are.
THEOREM ScanFindsFirst == Spec => []FirstMatch
<1>. QED BY InitScanInv, NextScanInv, ScanInvFirstMatch, PTL DEF Spec

------------------------------------------------------------------------------

\* The address of a byte of the code is inside its page, and the byte is its own.
LEMMA CodeAddress ==
    ASSUME TypeOK, NEW index \in 0 .. module_size - 1
    PROVE  get_code_address(index) = memory[index]
<1> DEFINE n == index \div PageSize
           k == index % PageSize
<1>1. PageSize \in Nat \ {0} /\ index \in Nat /\ module_size \in Nat
  BY ScanAssumption DEF TypeOK
<1>2. k \in 0 .. PageSize - 1 /\ n \in Nat /\ n * PageSize + k = index BY <1>1
<1>3. n \in 0 .. (module_size - 1) \div PageSize BY <1>1, <1>2
<1> HIDE DEF n, k
<1>4. k \in {l \in 0 .. PageSize - 1 : n * PageSize + l < module_size} BY <1>1, <1>2
<1>5. pages[n][k] = memory[n * PageSize + k] BY <1>3, <1>4 DEF pages
<1>. QED BY <1>2, <1>5 DEF get_code_address, n, k

\* The search in byte code looks at the places scan_all looks at, and finds
\* there what scan_all finds.
LEMMA CodeLocations ==
    ASSUME TypeOK
    PROVE  code_locations = scan_all
<1>1. /\ max_idx \in Nat /\ length = max_idx + 1
      /\ scan_end \in Nat /\ module_size = scan_end + length
  BY Sizing
<1>2. module_size - length - 1 = scan_end - 1 BY <1>1
<1>3. ASSUME NEW p \in 0 .. scan_end - 1, NEW j \in 0 .. max_idx
      PROVE  (sig[j] = Wild \/ sig[j] = get_code_address(p + j)) <=> Fits(p, j)
  <2>1. p + j \in 0 .. module_size - 1 BY <1>1
  <2>2. get_code_address(p + j) = memory[p + j] BY <2>1, CodeAddress
  <2>. QED BY <2>2 DEF Fits
<1>. QED BY <1>2, <1>3 DEF code_locations, scan_all, Matches

LEMMA ScanInvSearchesAgree == ScanInv => SearchesAgree
<1> SUFFICES ASSUME ScanInv, pc = "done"
             PROVE  /\ get_code_location_by_pattern = IF result = scan_end THEN None ELSE result
                    /\ result \in scan_all \cup {None, scan_end}
                    /\ \A p \in scan_all : result # None /\ result <= p
  BY DEF SearchesAgree
<1>1. scan_end \in Nat /\ result \in Nat \cup {None} /\ None \notin Int
  BY Sizing, ScanAssumption DEF ScanInv, TypeOK
<1>2. get_code_location_by_pattern = First(scan_all)
  BY CodeLocations DEF get_code_location_by_pattern, ScanInv
<1>3. IF result = None
      THEN Matches(scan_end) = {}
      ELSE result \in Matches(scan_end) /\ Matches(result - 1) = {}
  BY ScanInvFirstMatch DEF FirstMatch
<1>4. /\ scan_all \subseteq 0 .. scan_end - 1
      /\ scan_all = {p \in Matches(scan_end) : p < scan_end}
  BY <1>1 DEF scan_all, Matches
<1>5. CASE result = None BY <1>1, <1>2, <1>3, <1>4, <1>5 DEF First
<1>6. CASE result = scan_end
  <2>1. scan_all = {} BY <1>1, <1>3, <1>6 DEF scan_all
  <2>. QED BY <1>1, <1>2, <1>6, <2>1 DEF First
<1>7. CASE result # None /\ result # scan_end
  <2>1. result \in Nat /\ result \in Matches(scan_end) BY <1>1, <1>3, <1>7
  <2>2. result < scan_end BY <1>1, <1>7, <2>1 DEF Matches
  <2>3. result \in scan_all BY <1>4, <2>1, <2>2
  <2>4. ASSUME NEW p \in scan_all PROVE result <= p
    <3>1. p \in Int /\ 0 <= p BY <1>1, <1>4
    <3>2. CASE p < result
      <4>1. p \in Matches(result - 1) BY <1>4, <2>1, <3>1, <3>2 DEF Matches
      <4>. QED BY <1>3, <1>7, <4>1
    <3>. QED BY <2>1, <3>1, <3>2
  <2>5. (CHOOSE p \in scan_all : \A k \in scan_all : p <= k) = result
    <3> DEFINE least == CHOOSE p \in scan_all : \A k \in scan_all : p <= k
    <3>1. least \in scan_all /\ \A k \in scan_all : least <= k BY <2>3, <2>4
    <3> HIDE DEF least
    <3>2. least \in Int /\ least <= result /\ result <= least BY <1>1, <1>4, <2>3, <2>4, <3>1
    <3>3. least = result BY <2>1, <3>2
    <3>. QED BY <3>3 DEF least
  <2>6. First(scan_all) = result BY <2>3, <2>5 DEF First
  <2>. QED BY <1>2, <1>7, <2>3, <2>4, <2>6
<1>. QED BY <1>5, <1>6, <1>7

\* The three searches agree but for the last place, however the code is paged.
THEOREM SearchesMatch == Spec => []SearchesAgree
<1>. QED BY InitScanInv, NextScanInv, ScanInvSearchesAgree, PTL DEF Spec

------------------------------------------------------------------------------

\* Induction over a set of natural numbers.
LEMMA SetInduction ==
    ASSUME NEW S, 0 \in S, \A n \in Nat : n \in S => n + 1 \in S
    PROVE  Nat \subseteq S
<1> SUFFICES ASSUME Nat \ S # {} PROVE FALSE
  OBVIOUS
<1>1. PICK k \in Nat \ S : \A m \in Nat \ S : ~(m < k)
  <2>1. PICK k \in Nat \ S : \A m \in Nat \ S : <<m, k>> \notin OpToRel(<, Nat)
    BY NatLessThanWellFounded, WFMin, Zenon
  <2>2. \A m \in Nat : m < k => <<m, k>> \in OpToRel(<, Nat)
    BY Zenon DEF OpToRel
  <2>. QED BY <2>1, <2>2
<1>. QED BY <1>1, k - 1 < k

\* What is at each place of two sequences put together with a space between them.
LEMMA Concatenation ==
    ASSUME NEW S, NEW space \in S, NEW s \in Seq(S), NEW t \in Seq(S),
           NEW joined, joined = s \o (<<space>> \o t)
    PROVE  /\ joined \in Seq(S)
           /\ Len(s) \in Nat /\ Len(t) \in Nat
           /\ Len(joined) = Len(s) + 1 + Len(t)
           /\ \A k \in 1 .. Len(s) : joined[k] = s[k]
           /\ joined[Len(s) + 1] = space
           /\ \A d \in 1 .. Len(t) : joined[Len(s) + 1 + d] = t[d]
<1> DEFINE rest == <<space>> \o t
<1>1. /\ rest \in Seq(S) /\ Len(rest) = 1 + Len(t) /\ rest[1] = space
      /\ \A d \in 1 .. Len(t) : rest[1 + d] = t[d]
  OBVIOUS
<1>2. joined = s \o rest
  OBVIOUS
<1> HIDE DEF rest
<1>3. /\ joined \in Seq(S)
      /\ Len(s) \in Nat /\ Len(t) \in Nat
      /\ Len(joined) = Len(s) + Len(rest)
      /\ \A k \in 1 .. Len(s) : joined[k] = s[k]
      /\ \A k \in 1 .. Len(rest) : joined[Len(s) + k] = rest[k]
  BY <1>1, <1>2
<1>4. ASSUME NEW d \in 1 .. Len(t)
      PROVE  joined[Len(s) + 1 + d] = t[d]
  <2>1. 1 + d \in 1 .. Len(rest) /\ Len(s) + (1 + d) = Len(s) + 1 + d BY <1>1, <1>3
  <2>. QED BY <1>1, <1>3, <2>1
<1>. QED BY <1>1, <1>3, <1>4

\* The function that FlattenSeq defines by recursion exists.
LEMMA FlattenDefined ==
    ASSUME NEW seqs, Len(seqs) \in Nat \ {0}
    PROVE  \E flat :
             /\ flat = [k \in 1 .. Len(seqs) |->
                          IF k = 1 THEN seqs[k] ELSE flat[k - 1] \o seqs[k]]
             /\ FlattenSeq(seqs) = flat[Len(seqs)]
<1> DEFINE Step(k, f) == IF k = 1 THEN seqs[k] ELSE f[k - 1] \o seqs[k]
           Defines(f, n) == f = [k \in 1 .. n |-> Step(k, f)]
           S == {n \in Nat : \E f : Defines(f, n)}
<1>1. 0 \in S
  <2>1. Defines([k \in 1 .. 0 |-> seqs], 0)
    OBVIOUS
  <2>. QED BY <2>1
<1>2. ASSUME NEW n \in Nat, n \in S PROVE n + 1 \in S
  <2>1. PICK f : Defines(f, n) BY <1>2
  <2> DEFINE g == [k \in 1 .. n + 1 |-> Step(k, f)]
  <2>2. \A k \in 1 .. n : g[k] = f[k]
    <3> HIDE DEF Step
    <3>. QED BY <2>1
  <2>3. ASSUME NEW k \in 1 .. n + 1 PROVE Step(k, g) = Step(k, f)
    <3>1. CASE k = 1 BY <3>1
    <3>2. CASE k # 1
      <4>1. k - 1 \in 1 .. n BY <3>2
      <4> HIDE DEF g
      <4>. QED BY <2>2, <3>2, <4>1
    <3>. QED BY <3>1, <3>2
  <2>4. Defines(g, n + 1)
    <3> HIDE DEF Step
    <3>. QED BY <2>3
  <2> HIDE DEF Defines, g
  <2>. QED BY <2>4
<1>3. \E f : Defines(f, Len(seqs))
  <2> HIDE DEF Defines
  <2>1. Nat \subseteq S
    <3> HIDE DEF S
    <3>. QED BY <1>1, <1>2, SetInduction
  <2>. QED BY <2>1
<1> DEFINE flat == CHOOSE f : Defines(f, Len(seqs))
<1>4. Defines(flat, Len(seqs))
  <2> HIDE DEF Defines
  <2>. QED BY <1>3
<1>5. FlattenSeq(seqs) = flat[Len(seqs)] BY DEF FlattenSeq
<1> HIDE DEF flat
<1>. QED BY <1>4, <1>5

------------------------------------------------------------------------------

\* The characters that occur in a text.
Chars == DOMAIN Digits \cup {" ", "?"}

\* A token is one question mark or two digits.
LEMMA TokenChars ==
    ASSUME NEW token \in Tokens
    PROVE  /\ token \in Seq(Chars)
           /\ \/ token = <<"?">> /\ Len(token) = 1 /\ token[1] = "?"
              \/ /\ token \in Written /\ Len(token) = 2 /\ token # <<"?">>
                 /\ token[1] \in DOMAIN Digits /\ token[2] \in DOMAIN Digits
                 /\ token = <<token[1], token[2]>>
                 /\ Value(token) \in Bytes
<1>1. CASE token = <<"?">>
  <2>1. "?" \in Chars BY DEF Chars
  <2>. QED BY <1>1, <2>1
<1>2. CASE token \in Written
  <2>1. token \in (DOMAIN Digits) \X (DOMAIN Digits) BY <1>2, TextAssumption, Zenon
  <2>2. PICK a \in DOMAIN Digits, b \in DOMAIN Digits : token = <<a, b>> BY <2>1
  <2>3. a \in Chars /\ b \in Chars BY DEF Chars
  <2>4. Value(token) \in Bytes BY <1>2, TextAssumption
  <2>. QED BY <1>2, <2>2, <2>3, <2>4
<1>. QED BY <1>1, <1>2 DEF Tokens

\* Names that keep the provers from asking what type a token or a character has.
Blank == " "
Question == "?"
Token(ts, k) == ts[k]
Width(ts, k) == Len(ts[k])
Char(ts, k, d) == ts[k][d]

\* The first n tokens are written in the text, each from its place in start,
\* with one space between them.
LaidOut(ts, n, text, start) ==
    /\ n \in Nat \ {0}
    /\ \A k \in 1 .. n :
        start[k] \in Nat /\ 0 < start[k] /\ start[k] + Width(ts, k) - 1 <= Len(text)
    /\ start[1] = 1
    /\ Len(text) = start[n] + Width(ts, n) - 1
    /\ \A k \in 1 .. n - 1 :
        /\ start[k + 1] = start[k] + Width(ts, k) + 1
        /\ text[start[k] + Width(ts, k)] = Blank
    /\ \A k \in 1 .. n : \A d \in 1 .. Width(ts, k) : text[start[k] + d - 1] = Char(ts, k, d)

\* One token more, behind a space.
LEMMA LaidOutNext ==
    ASSUME NEW C, Blank \in C,
           NEW ts, NEW n \in Nat \ {0}, Token(ts, n + 1) \in Seq(C),
           \A k \in 1 .. n + 1 : Width(ts, k) \in Nat /\ 0 < Width(ts, k),
           NEW text \in Seq(C), NEW start, LaidOut(ts, n, text, start)
    PROVE  /\ text \o (<<Blank>> \o Token(ts, n + 1)) \in Seq(C)
           /\ \E begin : LaidOut(ts, n + 1, text \o (<<Blank>> \o Token(ts, n + 1)), begin)
<1> DEFINE W(k) == Width(ts, k)
           Ch(k, d) == Char(ts, k, d)
           next == text \o (<<Blank>> \o Token(ts, n + 1))
           begin == [k \in 1 .. n + 1 |-> IF k = n + 1 THEN Len(text) + 2 ELSE start[k]]
           St(k) == start[k]
           Begin(k) == begin[k]
<1>1. \A k \in 1 .. n + 1 : W(k) \in Nat /\ 0 < W(k)
  <2> HIDE DEF begin
  <2>. QED OBVIOUS
<1>2. /\ next \in Seq(C)
      /\ Len(text) \in Nat
      /\ Len(next) = Len(text) + 1 + W(n + 1)
      /\ \A k \in 1 .. Len(text) : next[k] = text[k]
      /\ next[Len(text) + 1] = Blank
      /\ \A d \in 1 .. W(n + 1) : next[Len(text) + 1 + d] = Ch(n + 1, d)
  <2> DEFINE token == Token(ts, n + 1)
  <2>3. token \in Seq(C)
    OBVIOUS
  <2>4. next = text \o (<<Blank>> \o token)
    OBVIOUS
  <2>5. W(n + 1) = Len(token) /\ \A d : Ch(n + 1, d) = token[d]
    BY DEF Token, Width, Char
  <2> HIDE DEF next, token, W, Ch, begin
  <2>6. /\ next \in Seq(C)
        /\ Len(text) \in Nat
        /\ Len(next) = Len(text) + 1 + Len(token)
        /\ \A k \in 1 .. Len(text) : next[k] = text[k]
        /\ next[Len(text) + 1] = Blank
        /\ \A d \in 1 .. Len(token) : next[Len(text) + 1 + d] = token[d]
    BY <2>3, <2>4, Concatenation
  <2>. QED BY <2>5, <2>6, Zenon
<1>3. /\ St(1) = 1
      /\ Len(text) = St(n) + W(n) - 1
      /\ \A k \in 1 .. n - 1 : St(k + 1) = St(k) + W(k) + 1 /\ text[St(k) + W(k)] = Blank
      /\ \A k \in 1 .. n : \A d \in 1 .. W(k) : text[St(k) + d - 1] = Ch(k, d)
  BY Zenon DEF LaidOut
<1>4. \A k \in 1 .. n : St(k) \in Nat /\ 0 < St(k) /\ St(k) + W(k) - 1 <= Len(text)
  BY Zenon DEF LaidOut
<1>5. /\ Begin(n + 1) = Len(text) + 2
      /\ \A k \in 1 .. n : Begin(k) = St(k)
  <2> HIDE DEF W, Ch, next
  <2>1. n + 1 \in 1 .. n + 1 /\ \A k \in 1 .. n : k \in 1 .. n + 1 /\ k # n + 1
    OBVIOUS
  <2>. QED BY <2>1, Zenon
<1> HIDE DEF W, Ch, next, St, Begin, begin
<1>6. Len(text) \in Nat /\ Len(next) = Len(text) + 1 + W(n + 1)
  BY <1>2
<1>7. ASSUME NEW k \in 1 .. n + 1
      PROVE  Begin(k) \in Nat /\ 0 < Begin(k) /\ Begin(k) + W(k) - 1 <= Len(next)
  <2>1. CASE k = n + 1 BY <1>1, <1>2, <1>5, <2>1
  <2>2. CASE k # n + 1
    <3>1. k \in 1 .. n BY <2>2
    <3>2. W(k) \in Nat /\ W(n + 1) \in Nat BY <1>1
    <3>3. Begin(k) = St(k) /\ St(k) \in Nat /\ 0 < St(k) /\ St(k) + W(k) - 1 <= Len(text)
      BY <1>4, <1>5, <3>1
    <3>. QED BY <1>6, <3>2, <3>3
  <2>. QED BY <2>1, <2>2
<1>8. Begin(1) = 1
  <2>1. 1 \in 1 .. n
    OBVIOUS
  <2>. QED BY <1>3, <1>5, <2>1
<1>9. Len(next) = Begin(n + 1) + W(n + 1) - 1
  BY <1>1, <1>2, <1>5
<1>10. ASSUME NEW k \in 1 .. (n + 1) - 1
      PROVE  /\ Begin(k + 1) = Begin(k) + W(k) + 1
             /\ next[Begin(k) + W(k)] = Blank
  <2>1. k \in 1 .. n /\ W(k) \in Nat /\ 0 < W(k) /\ Begin(k) = St(k) /\ St(k) \in Nat
    BY <1>1, <1>4, <1>5
  <2>2. CASE k = n
    <3>1. St(k) + W(k) = Len(text) + 1 BY <1>3, <1>2, <2>1, <2>2
    <3>. QED BY <1>2, <1>5, <2>1, <2>2, <3>1
  <2>3. CASE k # n
    <3>1. k \in 1 .. n - 1 /\ k + 1 \in 1 .. n BY <2>1, <2>3
    <3>2. /\ St(k + 1) = St(k) + W(k) + 1
          /\ text[St(k) + W(k)] = Blank
      BY <1>3, <3>1
    <3>3. W(k + 1) \in Nat /\ 0 < W(k + 1) /\ St(k + 1) + W(k + 1) - 1 <= Len(text)
      BY <1>1, <1>4, <3>1
    <3>4. St(k) + W(k) \in 1 .. Len(text)
      <4>1. St(k) + W(k) + 1 <= Len(text)
        <5> DEFINE b == St(k + 1)
                   v == W(k + 1)
        <5>1. b = St(k) + W(k) + 1 BY <3>2
        <5>2. v \in Nat /\ 0 < v /\ b + v - 1 <= Len(text) BY <3>3
        <5> HIDE DEF b, v
        <5>. QED BY <1>6, <2>1, <5>1, <5>2
      <4>. QED BY <1>6, <2>1, <4>1
    <3>5. next[St(k) + W(k)] = Blank BY <1>2, <3>2, <3>4
    <3>. QED BY <1>5, <2>1, <3>1, <3>2, <3>5
  <2>. QED BY <2>2, <2>3
<1>11. ASSUME NEW k \in 1 .. n + 1, NEW d \in 1 .. W(k)
      PROVE  next[Begin(k) + d - 1] = Ch(k, d)
  <2>1. CASE k = n + 1
    <3>1. Begin(k) + d - 1 = Len(text) + 1 + d BY <1>1, <1>2, <1>5, <2>1
    <3>. QED BY <1>2, <2>1, <3>1
  <2>2. CASE k # n + 1
    <3>1. k \in 1 .. n /\ W(k) \in Nat BY <1>1, <2>2
    <3>2. text[St(k) + d - 1] = Ch(k, d) BY <1>3, <3>1
    <3>3. St(k) + d - 1 \in 1 .. Len(text)
      <4>1. St(k) \in Nat /\ 0 < St(k) /\ St(k) + W(k) - 1 <= Len(text) BY <1>4, <3>1
      <4>. QED BY <1>6, <3>1, <4>1
    <3>. QED BY <1>2, <1>5, <3>1, <3>2, <3>3
  <2>. QED BY <2>1, <2>2
<1>12. n + 1 \in Nat \ {0}
  OBVIOUS
<1>13. LaidOut(ts, n + 1, next, begin)
  BY <1>7, <1>8, <1>9, <1>10, <1>11, <1>12, Zenon DEF LaidOut, W, Ch, Begin
<1>. QED BY <1>2, <1>13, Zenon DEF next

\* The text of a signature is laid out so.
LEMMA TextLayout ==
    ASSUME NEW ts \in Seq(Tokens), Len(ts) # 0
    PROVE  /\ Text(ts) \in Seq(Chars)
           /\ \E start : LaidOut(ts, Len(ts), Text(ts), start)
<1> DEFINE seqs == [k \in 1 .. Len(ts) |-> IF k = 1 THEN ts[k] ELSE <<" ">> \o ts[k]]
<1>1. Len(ts) \in Nat \ {0} /\ Len(seqs) = Len(ts)
  OBVIOUS
<1>2. ASSUME NEW k \in 1 .. Len(ts)
      PROVE  /\ Token(ts, k) \in Seq(Chars)
             /\ Width(ts, k) \in Nat /\ 0 < Width(ts, k)
  <2>1. ts[k] \in Tokens
    OBVIOUS
  <2>2. ts[k] \in Seq(Chars) /\ (Len(ts[k]) = 1 \/ Len(ts[k]) = 2)
    BY <2>1, TokenChars
  <2>3. Width(ts, k) = 1 \/ Width(ts, k) = 2
    BY <2>2, Zenon DEF Width
  <2>. QED BY <2>2, <2>3 DEF Token
<1>3. PICK flat :
        /\ flat = [k \in 1 .. Len(ts) |->
                     IF k = 1 THEN seqs[k] ELSE flat[k - 1] \o seqs[k]]
        /\ Text(ts) = flat[Len(ts)]
  <2> HIDE DEF seqs
  <2>1. \E flat :
          /\ flat = [k \in 1 .. Len(seqs) |->
                       IF k = 1 THEN seqs[k] ELSE flat[k - 1] \o seqs[k]]
          /\ FlattenSeq(seqs) = flat[Len(seqs)]
    BY <1>1, FlattenDefined
  <2>. QED BY <1>1, <2>1 DEF Text, seqs
<1>4. flat[1] = Token(ts, 1)
  <2>1. 1 \in 1 .. Len(ts) BY <1>1
  <2>2. seqs[1] = Token(ts, 1) BY <2>1, Zenon DEF Token
  <2> HIDE DEF seqs
  <2>. QED BY <1>3, <2>1, <2>2
<1>5. ASSUME NEW k \in 1 .. Len(ts) - 1
      PROVE  flat[k + 1] = flat[k] \o (<<Blank>> \o Token(ts, k + 1))
  <2>1. k + 1 \in 1 .. Len(ts) /\ k + 1 # 1 /\ (k + 1) - 1 = k BY <1>1
  <2>2. seqs[k + 1] = <<Blank>> \o Token(ts, k + 1) BY <2>1, Zenon DEF Token, Blank
  <2>3. flat[k + 1] = flat[(k + 1) - 1] \o seqs[k + 1]
    <3> HIDE DEF seqs
    <3>. QED BY <1>3, <2>1
  <2>. QED BY <2>1, <2>2, <2>3
<1> DEFINE Good(n) == flat[n] \in Seq(Chars) /\ \E start : LaidOut(ts, n, flat[n], start)
           S == {n \in Nat : n < Len(ts) => Good(n + 1)}
<1> HIDE DEF seqs
<1>6. Good(1)
  <2>1. 1 \in 1 .. Len(ts) BY <1>1
  <2>2. Token(ts, 1) \in Seq(Chars) /\ Width(ts, 1) \in Nat /\ 0 < Width(ts, 1) BY <1>2, <2>1
  <2> DEFINE start == [k \in {1} |-> 1]
  <2>3. start[1] = 1
    OBVIOUS
  <2>4. \A k : k \in 1 .. 1 <=> k = 1
    OBVIOUS
  <2>5. \A k : k \notin 1 .. 1 - 1
    OBVIOUS
  <2>6. \A d \in 1 .. Width(ts, 1) : 1 + d - 1 = d BY <2>2
  <2>7. \A d : Char(ts, 1, d) = Token(ts, 1)[d] BY DEF Char, Token
  <2>8. Width(ts, 1) = Len(Token(ts, 1)) BY DEF Width, Token
  <2>9. 1 + Width(ts, 1) - 1 = Width(ts, 1) /\ Width(ts, 1) <= Width(ts, 1) BY <2>2
  <2> HIDE DEF start
  <2>10. LaidOut(ts, 1, Token(ts, 1), start)
    <3>1. 1 \in Nat \ {0} /\ 1 \in Nat /\ 0 < 1
      OBVIOUS
    <3>. QED BY <2>2, <2>3, <2>4, <2>5, <2>6, <2>7, <2>8, <2>9, <3>1, Zenon DEF LaidOut
  <2>. QED BY <1>4, <2>2, <2>10
<1>7. ASSUME NEW n \in Nat \ {0}, n + 1 <= Len(ts), Good(n)
      PROVE  Good(n + 1)
  <2>1. n \in 1 .. Len(ts) - 1 /\ n + 1 \in 1 .. Len(ts) BY <1>1, <1>7
  <2>2. PICK start : LaidOut(ts, n, flat[n], start) BY <1>7
  <2>3. Blank \in Chars BY DEF Chars, Blank
  <2>4. Token(ts, n + 1) \in Seq(Chars) BY <1>2, <2>1
  <2>5. \A k \in 1 .. n + 1 : Width(ts, k) \in Nat /\ 0 < Width(ts, k)
    <3>1. \A k \in 1 .. n + 1 : k \in 1 .. Len(ts) BY <1>1, <2>1
    <3>. QED BY <1>2, <3>1
  <2>6. flat[n] \in Seq(Chars) BY <1>7
  <2> DEFINE next == flat[n] \o (<<Blank>> \o Token(ts, n + 1))
  <2>7. next \in Seq(Chars) /\ \E begin : LaidOut(ts, n + 1, next, begin)
    BY <2>2, <2>3, <2>4, <2>5, <2>6, LaidOutNext
  <2>8. flat[n + 1] = next BY <1>5, <2>1
  <2> HIDE DEF next
  <2>. QED BY <2>7, <2>8
<1> HIDE DEF Good
<1>8. 0 \in S
  <2>1. 0 + 1 = 1
    OBVIOUS
  <2>. QED BY <1>6, <2>1
<1>9. ASSUME NEW n \in Nat, n \in S PROVE n + 1 \in S
  <2> SUFFICES ASSUME n + 1 < Len(ts) PROVE Good((n + 1) + 1)
    OBVIOUS
  <2>1. n < Len(ts) /\ (n + 1) + 1 <= Len(ts) /\ n + 1 \in Nat \ {0} BY <1>1
  <2>. QED BY <1>7, <1>9, <2>1
<1>10. Len(ts) - 1 \in S
  <2>1. Nat \subseteq S
    <3> HIDE DEF S
    <3>. QED BY <1>8, <1>9, SetInduction
  <2>. QED BY <1>1, <2>1
<1>11. Good(Len(ts))
  <2>1. (Len(ts) - 1) + 1 = Len(ts) /\ Len(ts) - 1 < Len(ts) BY <1>1
  <2>. QED BY <1>10, <2>1
<1>. QED BY <1>3, <1>11 DEF Good

\* The characters that separate tokens or are wildcards are no digits.
LEMMA NoDigits ==
    ~IsDigit(Blank) /\ ~IsDigit(Question) /\ Blank # Question
<1>1. " " \notin DOMAIN Digits /\ "?" \notin DOMAIN Digits
  BY TextAssumption, Zenon
<1>2. Blank # Question BY DEF Blank, Question
<1>. QED BY <1>1, <1>2, Zenon DEF IsDigit, Blank, Question

\* What a token stands for in the pattern.
Meaning(token) == IF token = <<"?">> THEN Wild ELSE Value(token)

\* The tokens that the parser does not drop: all but a wildcard at the end.
Kept(ts) == IF Last(ts) = <<"?">> THEN Front(ts) ELSE ts

\* The k-th token is a wildcard or a byte.
IsWildcard(ts, k) ==
    /\ Token(ts, k) = <<"?">> /\ Width(ts, k) = 1
    /\ Char(ts, k, 1) = Question
    /\ Meaning(Token(ts, k)) = Wild
IsByte(ts, k) ==
    /\ Token(ts, k) # <<"?">> /\ Width(ts, k) = 2
    /\ IsDigit(Char(ts, k, 1)) /\ IsDigit(Char(ts, k, 2))
    /\ Meaning(Token(ts, k)) = Value(<<Char(ts, k, 1), Char(ts, k, 2)>>)
    /\ Meaning(Token(ts, k)) \in Bytes

\* A token is one or the other.
LEMMA TokenKinds ==
    ASSUME NEW ts \in Seq(Tokens), NEW k \in 1 .. Len(ts)
    PROVE  IsWildcard(ts, k) \/ IsByte(ts, k)
<1> DEFINE token == ts[k]
<1>1. token \in Tokens
  OBVIOUS
<1>2. Token(ts, k) = token /\ Width(ts, k) = Len(token) /\ \A d : Char(ts, k, d) = token[d]
  BY DEF Token, Width, Char
<1> HIDE DEF token
<1>3. CASE token = <<"?">> /\ Len(token) = 1 /\ token[1] = "?"
  BY <1>2, <1>3, Zenon DEF IsWildcard, Question, Meaning
<1>4. CASE /\ token \in Written /\ Len(token) = 2 /\ token # <<"?">>
           /\ token[1] \in DOMAIN Digits /\ token[2] \in DOMAIN Digits
           /\ token = <<token[1], token[2]>>
           /\ Value(token) \in Bytes
  <2>1. Meaning(token) = Value(token) BY <1>4, Zenon DEF Meaning
  <2>2. Value(token) = Value(<<token[1], token[2]>>) BY <1>4, Zenon
  <2>. QED BY <1>2, <1>4, <2>1, <2>2, Zenon DEF IsByte, IsDigit
<1>. QED BY <1>1, <1>3, <1>4, TokenChars

\* What the character p and the one after it are, when p is the d-th character
\* of the k-th token, or the space behind it.
Neighbours(ts, n, text, start, k, d, p) ==
    /\ d <= Width(ts, k) => text[p] = Char(ts, k, d)
    /\ d < Width(ts, k) => text[p + 1] = Char(ts, k, d + 1)
    /\ d = Width(ts, k) /\ k < n => text[p + 1] = Blank
    /\ d = Width(ts, k) + 1 => text[p] = Blank /\ p + 1 = start[k + 1]
    /\ p = Len(text) <=> k = n /\ d = Width(ts, k)

\* The characters at the d-th of the k-th token, d being one more than its
\* width for the space behind it.
LEMMA Characters ==
    ASSUME NEW ts, NEW n, NEW text, NEW start, LaidOut(ts, n, text, start),
           \A k \in 1 .. n : Width(ts, k) \in Nat /\ 0 < Width(ts, k),
           NEW k \in 1 .. n, NEW d \in 1 .. Width(ts, k) + 1,
           d > Width(ts, k) => k < n,
           NEW p, p = start[k] + d - 1, Len(text) \in Nat
    PROVE  /\ p \in Nat /\ p <= Len(text)
           /\ Neighbours(ts, n, text, start, k, d, p)
<1> DEFINE W(l) == Width(ts, l)
           St(l) == start[l]
           Ch(l, e) == Char(ts, l, e)
<1>1. n \in Nat \ {0}
  BY Zenon DEF LaidOut
<1>2. /\ \A l \in 1 .. n : St(l) \in Nat /\ 0 < St(l) /\ St(l) + W(l) - 1 <= Len(text)
      /\ \A l \in 1 .. n : W(l) \in Nat /\ 0 < W(l)
  BY Zenon DEF LaidOut
<1>3. /\ Len(text) = St(n) + W(n) - 1
      /\ \A l \in 1 .. n - 1 : St(l + 1) = St(l) + W(l) + 1 /\ text[St(l) + W(l)] = Blank
      /\ \A l \in 1 .. n : \A e \in 1 .. W(l) : text[St(l) + e - 1] = Ch(l, e)
  BY Zenon DEF LaidOut
<1>4. /\ d \in 1 .. W(k) + 1 /\ (d > W(k) => k < n) /\ p = St(k) + d - 1
  OBVIOUS
<1> SUFFICES /\ p \in Nat /\ p <= Len(text)
             /\ d <= W(k) => text[p] = Ch(k, d)
             /\ d < W(k) => text[p + 1] = Ch(k, d + 1)
             /\ d = W(k) /\ k < n => text[p + 1] = Blank
             /\ d = W(k) + 1 => text[p] = Blank /\ p + 1 = St(k + 1)
             /\ p = Len(text) <=> k = n /\ d = W(k)
  BY Zenon DEF Neighbours
<1> HIDE DEF W, St, Ch
<1>5. n \in Nat /\ k \in Nat /\ 1 <= k /\ k <= n BY <1>1
<1>6. St(k) \in Nat /\ 0 < St(k) /\ W(k) \in Nat /\ 0 < W(k) BY <1>2
<1>7. d \in Nat /\ 1 <= d /\ d <= W(k) + 1 BY <1>4, <1>6
<1>8. p \in Nat BY <1>4, <1>6, <1>7
<1>9. ASSUME d <= W(k) PROVE text[p] = Ch(k, d)
  <2>1. d \in 1 .. W(k) BY <1>6, <1>7, <1>9
  <2>. QED BY <1>3, <1>4, <2>1
<1>10. ASSUME d < W(k) PROVE text[p + 1] = Ch(k, d + 1)
  <2>1. d + 1 \in 1 .. W(k) BY <1>6, <1>7, <1>10
  <2>2. St(k) + (d + 1) - 1 = p + 1 BY <1>4, <1>6, <1>7
  <2>. QED BY <1>3, <2>1, <2>2
<1>11. ASSUME k < n
       PROVE  /\ text[St(k) + W(k)] = Blank
              /\ St(k + 1) = St(k) + W(k) + 1
              /\ St(k) + W(k) < Len(text)
  <2>1. k \in 1 .. n - 1 /\ k + 1 \in 1 .. n BY <1>5, <1>11
  <2>2. /\ St(k + 1) \in Nat /\ St(k + 1) + W(k + 1) - 1 <= Len(text)
        /\ W(k + 1) \in Nat /\ 0 < W(k + 1)
    BY <1>2, <2>1
  <2>3. text[St(k) + W(k)] = Blank /\ St(k + 1) = St(k) + W(k) + 1 BY <1>3, <2>1
  <2>4. St(k) + W(k) < Len(text) BY <1>6, <2>2, <2>3
  <2>. QED BY <2>3, <2>4
<1>12. ASSUME d = W(k), k < n PROVE text[p + 1] = Blank
  <2>1. p + 1 = St(k) + W(k) BY <1>4, <1>6, <1>12
  <2>. QED BY <1>11, <1>12, <2>1
<1>13. ASSUME d = W(k) + 1 PROVE text[p] = Blank /\ p + 1 = St(k + 1)
  <2>1. k < n /\ p = St(k) + W(k) /\ p + 1 = St(k) + W(k) + 1 BY <1>4, <1>6, <1>13
  <2>. QED BY <1>11, <2>1
<1>14. p = Len(text) <=> k = n /\ d = W(k)
  <2>1. CASE k = n
    <3>1. Len(text) = St(k) + W(k) - 1 BY <1>3, <2>1
    <3>2. d <= W(k) BY <1>4, <1>5, <1>6, <1>7, <2>1
    <3>. QED BY <1>4, <1>6, <1>7, <2>1, <3>1, <3>2
  <2>2. CASE k # n
    <3>1. St(k) + W(k) < Len(text) BY <1>5, <1>11, <2>2
    <3>. QED BY <1>4, <1>6, <1>7, <2>2, <3>1
  <2>. QED BY <2>1, <2>2
<1>15. p <= Len(text)
  <2>1. CASE d <= W(k)
    <3>1. k \in 1 .. n
      OBVIOUS
    <3>2. St(k) + W(k) - 1 <= Len(text) BY <1>2, <3>1
    <3>. QED BY <1>4, <1>6, <1>7, <2>1, <3>2
  <2>2. CASE d > W(k)
    <3>1. St(k) + W(k) < Len(text) BY <1>4, <1>11, <2>2
    <3>. QED BY <1>4, <1>6, <1>7, <2>2, <3>1
  <2>. QED BY <1>6, <1>7, <2>1, <2>2
<1>. QED BY <1>8, <1>9, <1>10, <1>12, <1>13, <1>14, <1>15

------------------------------------------------------------------------------

\* What is looked at is the d-th character of the k-th token, or the space
\* behind it.  A token's entry is added when its first character is looked at.
Looking(start, k, d) ==
    /\ k \in 1 .. Len(tokens)
    /\ d \in 1 .. Width(tokens, k) + 1
    /\ d > Width(tokens, k) => k < Len(tokens)
    /\ i = start[k] + d - 1
    /\ Len(m_bytes) = IF d = 1 THEN k - 1 ELSE k

\* A lone wildcard is no signature.
TextTypes ==
    /\ tokens \in Seq(Tokens) /\ Len(tokens) \in 1 .. MaxTokens /\ tokens # << <<"?">> >>
    /\ m_bytes \in Seq(Bytes \cup {Wild})
    /\ parsing \in BOOLEAN

\* The pattern so far is what the first tokens stand for.
Decoded ==
    /\ Len(m_bytes) <= Len(tokens)
    /\ \A k \in 1 .. Len(m_bytes) : m_bytes[k] = Meaning(Token(tokens, k))

\* The tokens are in the text, and one of their characters is looked at.
Placed == \E start : /\ LaidOut(tokens, Len(tokens), ida_sig, start)
                     /\ \E k, d : Looking(start, k, d)

\* While the text is read.
Reading ==
    /\ pc = "scan" /\ result = None /\ current_idx = 0
    /\ ida_sig \in Seq(Chars)
    /\ Placed

\* When the pattern has been handed to scan_pattern.
Handed ==
    /\ ScanInv
    /\ length = Len(m_bytes)
    /\ sig = [k \in 0 .. length - 1 |-> m_bytes[k + 1]]
    /\ Len(m_bytes) = Len(Kept(tokens))

\* FindsSignature and the scan's invariant hold of what the parser hands over
\* only because of how the text is laid out.
TextInv ==
    /\ TextTypes
    /\ Decoded
    /\ parsing => Reading
    /\ ~parsing => Handed

\* The first character of the first token is looked at first.
LEMMA InitTextInv == TextInit => TextInv
<1> SUFFICES ASSUME TextInit PROVE TextInv
  OBVIOUS
<1>1. /\ tokens \in BoundedSeq(Tokens, MaxTokens) /\ tokens # <<>> /\ tokens # << <<"?">> >>
      /\ ida_sig = Text(tokens) /\ i = 1 /\ m_bytes = <<>> /\ parsing = TRUE
      /\ pc = "scan" /\ result = None /\ current_idx = 0
  BY DEF TextInit
<1>2. tokens \in Seq(Tokens) /\ Len(tokens) \in 1 .. MaxTokens
  <2>1. PICK m \in 0 .. MaxTokens : tokens \in [1 .. m -> Tokens]
    BY <1>1 DEF BoundedSeq, SeqOf
  <2>2. MaxTokens \in Nat /\ m \in Nat
    <3>1. MaxTokens \in Nat \ {0} BY TextAssumption, Zenon
    <3>. QED BY <3>1
  <2>3. tokens \in Seq(Tokens) /\ Len(tokens) = m BY <2>1, <2>2
  <2>4. m # 0 BY <1>1, <2>3
  <2>. QED BY <2>1, <2>2, <2>3, <2>4
<1>3. TextTypes BY <1>1, <1>2 DEF TextTypes
<1>4. Len(m_bytes) = 0 /\ Decoded BY <1>1, <1>2 DEF Decoded
<1>5. Reading
  <2>1. Len(tokens) \in Nat /\ Len(tokens) # 0 /\ 1 \in 1 .. Len(tokens) BY <1>2
  <2>2. ida_sig \in Seq(Chars) BY <1>1, <1>2, <2>1, TextLayout
  <2>3. PICK start : LaidOut(tokens, Len(tokens), ida_sig, start) BY <1>1, <1>2, <2>1, TextLayout
  <2>4. start[1] = 1 BY <2>3, Zenon DEF LaidOut
  <2>5. Width(tokens, 1) = 1 \/ Width(tokens, 1) = 2
    BY <1>2, <2>1, TokenKinds, Zenon DEF IsWildcard, IsByte
  <2>6. Looking(start, 1, 1)
    <3>1. 1 \in 1 .. Width(tokens, 1) + 1 /\ ~(1 > Width(tokens, 1)) BY <2>5
    <3>2. i = start[1] + 1 - 1 BY <1>1, <2>4
    <3>3. Len(m_bytes) = 1 - 1 BY <1>4
    <3>. QED BY <2>1, <3>1, <3>2, <3>3, Zenon DEF Looking
  <2>. QED BY <1>1, <2>2, <2>3, <2>6, Zenon DEF Reading, Placed
<1>. QED BY <1>1, <1>3, <1>4, <1>5 DEF TextInv

\* What may be looked at before the last character: a wildcard, the first digit
\* of a byte, its second, or the space behind a token.
AtWildcard(k, d) ==
    IsWildcard(tokens, k) /\ d = 1 /\ k < Len(tokens) /\ ida_sig[i] = Question
AtFirst(k, d) ==
    /\ IsByte(tokens, k) /\ d = 1
    /\ ida_sig[i] = Char(tokens, k, 1) /\ ida_sig[i + 1] = Char(tokens, k, 2)
AtSecond(k, d) ==
    /\ IsByte(tokens, k) /\ d = 2 /\ k < Len(tokens)
    /\ ida_sig[i] = Char(tokens, k, 2) /\ ida_sig[i + 1] = Blank
AtSpace(start, k, d) ==
    /\ d = Width(tokens, k) + 1 /\ k < Len(tokens)
    /\ ida_sig[i] = Blank /\ i + 1 = start[k + 1]

\* The characters around the one that is looked at.
LEMMA Around ==
    ASSUME TextTypes, ida_sig \in Seq(Chars),
           NEW start, LaidOut(tokens, Len(tokens), ida_sig, start),
           NEW k, NEW d, Looking(start, k, d)
    PROVE  /\ tokens \in Seq(Tokens) /\ Len(tokens) \in Nat /\ k \in 1 .. Len(tokens)
           /\ start[k] \in Nat /\ Width(tokens, k) \in Nat
           /\ d \in 1 .. Width(tokens, k) + 1
           /\ (d > Width(tokens, k) => k < Len(tokens)) /\ i \in Nat /\ i <= Len(ida_sig)
           /\ Neighbours(tokens, Len(tokens), ida_sig, start, k, d, i)
<1>1. tokens \in Seq(Tokens) /\ Len(tokens) \in Nat /\ Len(ida_sig) \in Nat
  BY DEF TextTypes
<1>2. /\ k \in 1 .. Len(tokens)
      /\ d \in 1 .. Width(tokens, k) + 1
      /\ d > Width(tokens, k) => k < Len(tokens)
      /\ i = start[k] + d - 1
  BY Zenon DEF Looking
<1>3. ASSUME NEW l \in 1 .. Len(tokens) PROVE Width(tokens, l) \in Nat /\ 0 < Width(tokens, l)
  <2>1. Width(tokens, l) = 1 \/ Width(tokens, l) = 2
    BY <1>1, TokenKinds, Zenon DEF IsWildcard, IsByte
  <2>. QED BY <2>1
<1>4. \A l \in 1 .. Len(tokens) : Width(tokens, l) \in Nat /\ 0 < Width(tokens, l)
  BY <1>3, Zenon
<1>5. i \in Nat /\ i <= Len(ida_sig) /\ Neighbours(tokens, Len(tokens), ida_sig, start, k, d, i)
  BY <1>1, <1>2, <1>4, Characters, Zenon
<1>6. start[k] \in Nat BY <1>2, Zenon DEF LaidOut
<1>. QED BY <1>1, <1>2, <1>4, <1>5, <1>6, Zenon

\* One of the four is what the parser looks at.
LEMMA LookedAt ==
    ASSUME TextTypes, ida_sig \in Seq(Chars), More,
           NEW start, LaidOut(tokens, Len(tokens), ida_sig, start),
           NEW k, NEW d, Looking(start, k, d)
    PROVE  /\ i \in Nat /\ k \in Nat /\ Len(tokens) \in Nat
           /\ start[k] \in Nat
           /\ AtWildcard(k, d) \/ AtFirst(k, d) \/ AtSecond(k, d) \/ AtSpace(start, k, d)
<1> DEFINE n == Len(tokens)
           W == Width(tokens, k)
<1>1. tokens \in Seq(Tokens) /\ n \in Nat /\ k \in 1 .. n
  BY Around, Zenon
<1>2. d \in 1 .. W + 1 /\ (d > W => k < n) /\ start[k] \in Nat /\ W \in Nat
  BY Around, Zenon
<1>3. /\ i \in Nat
      /\ d <= W => ida_sig[i] = Char(tokens, k, d)
      /\ d < W => ida_sig[i + 1] = Char(tokens, k, d + 1)
      /\ d = W /\ k < n => ida_sig[i + 1] = Blank
      /\ d = W + 1 => ida_sig[i] = Blank /\ i + 1 = start[k + 1]
      /\ i = Len(ida_sig) <=> k = n /\ d = W
  BY Around, Zenon DEF Neighbours
<1>4. i # Len(ida_sig) BY DEF More
<1>5. W \in Nat /\ d \in Nat /\ k \in Nat /\ k <= n /\ 1 <= d /\ d <= W + 1 BY <1>1, <1>2
<1>6. ASSUME d = W + 1 PROVE AtSpace(start, k, d)
  <2>1. k < n BY <1>2, <1>5, <1>6
  <2>. QED BY <1>3, <1>6, <2>1, Zenon DEF AtSpace
<1>7. ASSUME d # W + 1, IsWildcard(tokens, k) PROVE AtWildcard(k, d)
  <2>1. W = 1 /\ Char(tokens, k, 1) = Question BY <1>7, Zenon DEF IsWildcard
  <2>2. d = 1 BY <1>5, <1>7, <2>1
  <2>3. k < n /\ d <= W BY <1>1, <1>3, <1>4, <1>5, <2>1, <2>2
  <2>. QED BY <1>3, <1>7, <2>2, <2>3, Zenon DEF AtWildcard, IsWildcard
<1>8. ASSUME d # W + 1, IsByte(tokens, k) PROVE AtFirst(k, d) \/ AtSecond(k, d)
  <2>1. W = 2 BY <1>8, Zenon DEF IsByte
  <2>2. CASE d = 1
    <3>1. d <= W /\ d < W /\ d + 1 = 2 BY <2>1, <2>2
    <3>. QED BY <1>3, <1>8, <2>2, <3>1, Zenon DEF AtFirst
  <2>3. CASE d = 2
    <3>1. k < n /\ d <= W /\ d = W BY <1>1, <1>3, <1>4, <1>5, <2>1, <2>3
    <3>. QED BY <1>3, <1>8, <2>3, <3>1, Zenon DEF AtSecond
  <2>4. d = 1 \/ d = 2 BY <1>5, <1>8, <2>1
  <2>. QED BY <2>2, <2>3, <2>4
<1>9. start[k] \in Nat BY <1>2
<1>10. IsWildcard(tokens, k) \/ IsByte(tokens, k) BY <1>1, TokenKinds
<1>. QED BY <1>1, <1>3, <1>5, <1>6, <1>7, <1>8, <1>9, <1>10, Zenon

\* The entry of the next token is added.
LEMMA OneMoreEntry ==
    ASSUME TextTypes, Decoded, NEW k \in 1 .. Len(tokens), Len(m_bytes) = k - 1,
           NEW entry \in Bytes \cup {Wild}, entry = Meaning(Token(tokens, k)),
           m_bytes' = Append(m_bytes, entry), UNCHANGED <<tokens, parsing>>
    PROVE  TextTypes' /\ Decoded' /\ Len(m_bytes') = k
<1>1. /\ m_bytes \in Seq(Bytes \cup {Wild}) /\ Len(tokens) \in Nat
  BY DEF TextTypes
<1>2. /\ m_bytes' \in Seq(Bytes \cup {Wild})
      /\ Len(m_bytes') = k
      /\ m_bytes'[k] = entry
      /\ \A l \in 1 .. k - 1 : m_bytes'[l] = m_bytes[l]
  BY <1>1
<1>3. TextTypes' BY <1>2 DEF TextTypes
<1>4. ASSUME NEW l \in 1 .. k PROVE m_bytes'[l] = Meaning(Token(tokens, l))
  <2>1. CASE l = k BY <1>2, <2>1
  <2>2. CASE l # k
    <3>1. l \in 1 .. k - 1 BY <1>1, <2>2
    <3>2. m_bytes[l] = Meaning(Token(tokens, l)) BY <3>1 DEF Decoded
    <3>. QED BY <1>2, <3>1, <3>2
  <2>. QED BY <2>1, <2>2
<1>5. Decoded'
  <2>1. tokens' = tokens
    OBVIOUS
  <2>2. k <= Len(tokens) BY <1>1
  <2>. QED BY <1>2, <1>4, <2>1, <2>2 DEF Decoded
<1>. QED BY <1>2, <1>3, <1>5

\* The parser goes on to the next character.
LEMMA ReadOn ==
    ASSUME Reading, parsing, parsing' = parsing, TextTypes', Decoded',
           UNCHANGED <<tokens, ida_sig, vars>>,
           NEW start, LaidOut(tokens, Len(tokens), ida_sig, start),
           NEW k, NEW d, Looking(start, k, d)'
    PROVE  TextInv'
<1>1. /\ pc' = "scan" /\ result' = None /\ current_idx' = 0
      /\ ida_sig' \in Seq(Chars)
  BY DEF Reading, vars
<1>2. Placed' BY Zenon DEF Placed
<1>. QED BY <1>1, <1>2 DEF TextInv, Reading

\* Two digits in a row are only at the first digit of a byte.
LEMMA ReadByteTextInv ==
    ASSUME TextInv, ReadByte
    PROVE  TextInv'
<1>1. /\ TextTypes /\ Decoded /\ Reading /\ parsing /\ More
      /\ IsDigit(ida_sig[i]) /\ IsDigit(ida_sig[i + 1])
      /\ m_bytes' = Append(m_bytes, Value(<<ida_sig[i], ida_sig[i + 1]>>))
      /\ i' = i + 1
      /\ UNCHANGED <<tokens, ida_sig, parsing, vars>>
  BY DEF TextInv, ReadByte, More
<1>2. PICK start : /\ LaidOut(tokens, Len(tokens), ida_sig, start)
                   /\ \E k, d : Looking(start, k, d)
  BY <1>1, Zenon DEF Reading, Placed
<1>3. PICK k, d : Looking(start, k, d) BY <1>2, Zenon
<1>4. ida_sig \in Seq(Chars) BY <1>1, Zenon DEF Reading
<1>5. /\ i \in Nat /\ k \in Nat /\ start[k] \in Nat
      /\ AtWildcard(k, d) \/ AtFirst(k, d) \/ AtSecond(k, d) \/ AtSpace(start, k, d)
  BY <1>1, <1>2, <1>3, <1>4, LookedAt, Zenon
<1>6. AtFirst(k, d)
  <2>1. ~AtWildcard(k, d) BY <1>1, NoDigits, Zenon DEF AtWildcard
  <2>2. ~AtSecond(k, d) BY <1>1, NoDigits, Zenon DEF AtSecond
  <2>3. ~AtSpace(start, k, d) BY <1>1, NoDigits, Zenon DEF AtSpace
  <2>. QED BY <1>5, <2>1, <2>2, <2>3, Zenon
<1> DEFINE entry == Value(<<ida_sig[i], ida_sig[i + 1]>>)
<1>7. entry = Meaning(Token(tokens, k)) /\ entry \in Bytes /\ Width(tokens, k) = 2
  BY <1>6, Zenon DEF AtFirst, IsByte
<1>8. /\ k \in 1 .. Len(tokens) /\ i = start[k] + 1 - 1 /\ Len(m_bytes) = k - 1
  BY <1>3, <1>6, Zenon DEF AtFirst, Looking
<1>9. TextTypes' /\ Decoded' /\ Len(m_bytes') = k
  <2>1. m_bytes' = Append(m_bytes, entry) BY <1>1, Zenon
  <2> HIDE DEF entry
  <2>. QED BY <1>1, <1>7, <1>8, <2>1, OneMoreEntry
<1>10. Looking(start, k, 2)'
  <2>1. i' = start[k] + 2 - 1
    <3> DEFINE s == start[k]
    <3>1. i = s + 1 - 1 /\ i' = i + 1 /\ s \in Nat BY <1>1, <1>5, <1>8
    <3> HIDE DEF s
    <3>2. i' = s + 2 - 1 BY <3>1
    <3>. QED BY <3>2 DEF s
  <2>2. 2 \in 1 .. 2 + 1 /\ ~(2 > 2) /\ 2 # 1
    OBVIOUS
  <2>3. tokens' = tokens BY <1>1
  <2>. QED BY <1>7, <1>8, <1>9, <2>1, <2>2, <2>3, Zenon DEF Looking
<1>. QED BY <1>1, <1>2, <1>9, <1>10, ReadOn

\* A question mark is only at a wildcard.
LEMMA ReadWildcardTextInv ==
    ASSUME TextInv, ReadWildcard
    PROVE  TextInv'
<1>1. /\ TextTypes /\ Decoded /\ Reading /\ parsing /\ More
      /\ ida_sig[i] = Question
      /\ m_bytes' = Append(m_bytes, Wild)
      /\ i' = i + 1
      /\ UNCHANGED <<tokens, ida_sig, parsing, vars>>
  BY DEF TextInv, ReadWildcard, More, Question
<1>2. PICK start : /\ LaidOut(tokens, Len(tokens), ida_sig, start)
                   /\ \E k, d : Looking(start, k, d)
  BY <1>1, Zenon DEF Reading, Placed
<1>3. PICK k, d : Looking(start, k, d) BY <1>2, Zenon
<1>4. ida_sig \in Seq(Chars) BY <1>1, Zenon DEF Reading
<1>5. /\ i \in Nat /\ k \in Nat /\ start[k] \in Nat
      /\ AtWildcard(k, d) \/ AtFirst(k, d) \/ AtSecond(k, d) \/ AtSpace(start, k, d)
  BY <1>1, <1>2, <1>3, <1>4, LookedAt, Zenon
<1>6. AtWildcard(k, d)
  <2>1. ~AtFirst(k, d) BY <1>1, NoDigits, Zenon DEF AtFirst, IsByte
  <2>2. ~AtSecond(k, d) BY <1>1, NoDigits, Zenon DEF AtSecond, IsByte
  <2>3. ~AtSpace(start, k, d) BY <1>1, NoDigits, Zenon DEF AtSpace
  <2>. QED BY <1>5, <2>1, <2>2, <2>3, Zenon
<1>7. Wild = Meaning(Token(tokens, k)) /\ Width(tokens, k) = 1 /\ k < Len(tokens)
  BY <1>6, Zenon DEF AtWildcard, IsWildcard
<1>8. /\ k \in 1 .. Len(tokens) /\ i = start[k] + 1 - 1 /\ Len(m_bytes) = k - 1
  BY <1>3, <1>6, Zenon DEF AtWildcard, Looking
<1>9. TextTypes' /\ Decoded' /\ Len(m_bytes') = k
  BY <1>1, <1>7, <1>8, OneMoreEntry
<1>10. Looking(start, k, 2)'
  <2>1. i' = start[k] + 2 - 1
    <3> DEFINE s == start[k]
    <3>1. i = s + 1 - 1 /\ i' = i + 1 /\ s \in Nat BY <1>1, <1>5, <1>8
    <3> HIDE DEF s
    <3>2. i' = s + 2 - 1 BY <3>1
    <3>. QED BY <3>2 DEF s
  <2>2. 2 \in 1 .. 1 + 1 /\ 2 # 1
    OBVIOUS
  <2>3. tokens' = tokens BY <1>1
  <2>. QED BY <1>7, <1>8, <1>9, <2>1, <2>2, <2>3, Zenon DEF Looking
<1>. QED BY <1>1, <1>2, <1>9, <1>10, ReadOn

\* What is passed over is a second digit or a space.
LEMMA PassOverTextInv ==
    ASSUME TextInv, PassOver
    PROVE  TextInv'
<1>1. /\ TextTypes /\ Decoded /\ Reading /\ parsing /\ More
      /\ ida_sig[i] = Blank \/ (IsDigit(ida_sig[i]) /\ ~IsDigit(ida_sig[i + 1]))
      /\ i' = i + 1
      /\ UNCHANGED <<tokens, ida_sig, m_bytes, parsing, vars>>
  BY DEF TextInv, PassOver, More, Blank
<1>2. PICK start : /\ LaidOut(tokens, Len(tokens), ida_sig, start)
                   /\ \E k, d : Looking(start, k, d)
  BY <1>1, Zenon DEF Reading, Placed
<1>3. PICK k, d : Looking(start, k, d) BY <1>2, Zenon
<1>4. ida_sig \in Seq(Chars) BY <1>1, Zenon DEF Reading
<1>5. /\ i \in Nat /\ k \in Nat /\ start[k] \in Nat /\ Len(tokens) \in Nat
      /\ AtWildcard(k, d) \/ AtFirst(k, d) \/ AtSecond(k, d) \/ AtSpace(start, k, d)
  BY <1>1, <1>2, <1>3, <1>4, LookedAt, Zenon
<1>6. AtSecond(k, d) \/ AtSpace(start, k, d)
  <2>1. ~AtWildcard(k, d) BY <1>1, NoDigits, Zenon DEF AtWildcard
  <2>2. ~AtFirst(k, d)
    <3> SUFFICES ASSUME AtFirst(k, d) PROVE FALSE
      OBVIOUS
    <3>1. IsDigit(ida_sig[i]) /\ IsDigit(ida_sig[i + 1]) BY Zenon DEF AtFirst, IsByte
    <3>2. ida_sig[i] = Blank BY <1>1, <3>1, Zenon
    <3>3. IsDigit(Blank) BY <3>1, <3>2, Zenon
    <3>. QED BY <3>3, NoDigits, Zenon
  <2>. QED BY <1>5, <2>1, <2>2, Zenon
<1>7. TextTypes' /\ Decoded'
  <2>1. TextTypes' BY <1>1 DEF TextTypes
  <2>2. Decoded' BY <1>1 DEF Decoded
  <2>. QED BY <2>1, <2>2
<1>8. tokens' = tokens /\ m_bytes' = m_bytes
  BY <1>1
<1>9. CASE AtSecond(k, d)
  <2>1. Width(tokens, k) = 2 /\ d = 2 /\ k < Len(tokens)
    BY <1>9, Zenon DEF AtSecond, IsByte
  <2>2. k \in 1 .. Len(tokens) /\ i = start[k] + 2 - 1 /\ Len(m_bytes) = IF 2 = 1 THEN k - 1 ELSE k
    BY <1>3, <2>1, Zenon DEF Looking
  <2>3. i' = start[k] + 3 - 1
    <3> DEFINE s == start[k]
    <3>1. i = s + 2 - 1 /\ i' = i + 1 /\ s \in Nat BY <1>1, <1>5, <2>2
    <3> HIDE DEF s
    <3>2. i' = s + 3 - 1 BY <3>1
    <3>. QED BY <3>2 DEF s
  <2>4. 3 \in 1 .. 2 + 1 /\ 2 # 1 /\ 3 # 1
    OBVIOUS
  <2>5. Looking(start, k, 3)'
    BY <1>8, <2>1, <2>2, <2>3, <2>4, Zenon DEF Looking
  <2>. QED BY <1>1, <1>2, <1>7, <2>5, ReadOn
<1>10. CASE AtSpace(start, k, d)
  <2>1. d = Width(tokens, k) + 1 /\ k < Len(tokens) /\ i + 1 = start[k + 1]
    BY <1>10, Zenon DEF AtSpace
  <2>2. tokens \in Seq(Tokens) /\ k \in 1 .. Len(tokens) /\ k + 1 \in 1 .. Len(tokens)
    <3>1. k \in 1 .. Len(tokens) BY <1>3, Zenon DEF Looking
    <3>2. k + 1 \in 1 .. Len(tokens) BY <1>5, <2>1, <3>1
    <3>. QED BY <1>1, <3>1, <3>2 DEF TextTypes
  <2>3. /\ Width(tokens, k) = 1 \/ Width(tokens, k) = 2
        /\ Width(tokens, k + 1) = 1 \/ Width(tokens, k + 1) = 2
    BY <2>2, TokenKinds, Zenon DEF IsWildcard, IsByte
  <2>4. d # 1 /\ 1 \in 1 .. Width(tokens, k + 1) + 1 /\ ~(1 > Width(tokens, k + 1))
    BY <2>1, <2>3
  <2>5. Len(m_bytes) = k BY <1>3, <2>4, Zenon DEF Looking
  <2>6. k = (k + 1) - 1 BY <1>5
  <2>7. i' = start[k + 1] + 1 - 1
    <3> DEFINE s == start[k + 1]
    <3>1. i + 1 = s /\ i' = i + 1 /\ i \in Nat BY <1>1, <1>5, <2>1
    <3> HIDE DEF s
    <3>2. i' = s + 1 - 1 BY <3>1
    <3>. QED BY <3>2 DEF s
  <2>8. Looking(start, k + 1, 1)'
    BY <1>8, <2>2, <2>4, <2>5, <2>6, <2>7, Zenon DEF Looking
  <2>. QED BY <1>1, <1>2, <1>7, <2>8, ReadOn
<1>. QED BY <1>6, <1>9, <1>10

\* A sequence without its last entry.
LEMMA FrontEntries ==
    ASSUME NEW S, NEW s \in Seq(S), Len(s) # 0
    PROVE  /\ Len(SubSeq(s, 1, Len(s) - 1)) = Len(s) - 1
           /\ \A k \in 1 .. Len(s) - 1 : SubSeq(s, 1, Len(s) - 1)[k] = s[k]
<1> DEFINE m == Len(s) - 1
           front == SubSeq(s, 1, m)
<1>1. Len(s) \in Nat /\ m \in Nat
  OBVIOUS
<1>2. \A k \in 1 .. m : k \in 1 .. Len(s)
  BY <1>1
<1> HIDE DEF m
<1>3. Len(front) = m BY <1>1
<1>4. \A k \in 1 .. m : front[k] = s[k] BY <1>1, <1>2
<1>. QED BY <1>3, <1>4 DEF m

\* Where the loop ends it has looked at every token but a wildcard at the end.
LEMMA AllRead ==
    ASSUME TextTypes, ida_sig \in Seq(Chars), i = Len(ida_sig),
           NEW start, LaidOut(tokens, Len(tokens), ida_sig, start),
           NEW k, NEW d, Looking(start, k, d)
    PROVE  Len(m_bytes) = Len(Kept(tokens)) /\ Len(m_bytes) \in 1 .. Len(tokens)
<1> DEFINE n == Len(tokens)
           W == Width(tokens, k)
<1>1. tokens \in Seq(Tokens) /\ n \in Nat /\ k \in 1 .. n
  BY Around, Zenon
<1>2. k = n /\ d = W
  <2>1. i = Len(ida_sig) <=> k = n /\ d = W
    BY Around, Zenon DEF Neighbours
  <2>. QED BY <2>1, Zenon
<1>3. Len(m_bytes) = IF d = 1 THEN k - 1 ELSE k
  BY Zenon DEF Looking
<1>4. n \in Nat /\ n # 0 BY <1>1
<1>5. Last(tokens) = Token(tokens, n) BY DEF Last, Token
<1>6. CASE IsWildcard(tokens, n)
  <2>1. Token(tokens, n) = <<"?">> /\ d = 1 BY <1>2, <1>6, Zenon DEF IsWildcard
  <2>2. Len(m_bytes) = n - 1 BY <1>2, <1>3, <2>1, Zenon
  <2>3. Kept(tokens) = Front(tokens) BY <1>5, <2>1, Zenon DEF Kept
  <2>4. Len(Front(tokens)) = n - 1 BY <1>1, <1>4, FrontEntries DEF Front
  <2>5. n # 1
    <3> SUFFICES ASSUME n = 1 PROVE FALSE
      OBVIOUS
    <3>1. tokens[1] = <<"?">> BY <2>1, Zenon DEF Token
    <3>2. tokens = <<tokens[1]>> BY <1>1
    <3>3. tokens = << <<"?">> >> BY <3>1, <3>2, Zenon
    <3>. QED BY <3>3, Zenon DEF TextTypes
  <2>6. n - 1 \in 1 .. n
    <3> HIDE DEF n
    <3>. QED BY <1>4, <2>5
  <2>. QED BY <2>2, <2>3, <2>4, <2>6, Zenon
<1>7. CASE IsByte(tokens, n)
  <2>1. Token(tokens, n) # <<"?">> /\ d = 2 BY <1>2, <1>7, Zenon DEF IsByte
  <2>2. Len(m_bytes) = n
    <3>1. d # 1 BY <2>1
    <3>. QED BY <1>2, <1>3, <3>1, Zenon
  <2>3. Kept(tokens) = tokens BY <1>5, <2>1, Zenon DEF Kept
  <2>4. n \in 1 .. n BY <1>4
  <2>. QED BY <2>2, <2>3, <2>4, Zenon
<1>8. n \in 1 .. n BY <1>4
<1>. QED BY <1>1, <1>6, <1>7, <1>8, TokenKinds

\* The scan starts in one of its initial states.
LEMMA StartScanTextInv ==
    ASSUME TextInv, StartScan
    PROVE  TextInv'
<1>1. /\ TextTypes /\ Decoded /\ Reading /\ parsing /\ i = Len(ida_sig)
      /\ parsing' = FALSE
      /\ length' = Len(m_bytes)
      /\ sig' = [k \in 0 .. Len(m_bytes) - 1 |-> m_bytes[k + 1]]
      /\ module_size' \in {s \in Sizes : Len(m_bytes) <= s}
      /\ memory' \in [0 .. module_size' - 1 -> Bytes]
      /\ sig_idx' = Len(m_bytes) - 1
      /\ tokens' = tokens /\ m_bytes' = m_bytes
      /\ current_idx' = current_idx /\ result' = result /\ pc' = pc
  BY DEF TextInv, StartScan, More, textVars
<1>2. PICK start : /\ LaidOut(tokens, Len(tokens), ida_sig, start)
                   /\ \E k, d : Looking(start, k, d)
  BY <1>1, Zenon DEF Reading, Placed
<1>3. PICK k, d : Looking(start, k, d) BY <1>2, Zenon
<1>4. ida_sig \in Seq(Chars) /\ pc = "scan" /\ result = None /\ current_idx = 0
  BY <1>1, Zenon DEF Reading
<1>5. Len(m_bytes) = Len(Kept(tokens)) /\ Len(m_bytes) \in 1 .. Len(tokens)
  BY <1>1, <1>2, <1>3, <1>4, AllRead
<1>6. Len(m_bytes) \in Lengths
  <2>1. Len(tokens) \in 1 .. MaxTokens BY <1>1 DEF TextTypes
  <2>2. MaxTokens \in Nat \ {0} /\ 1 .. MaxTokens \subseteq Lengths BY TextAssumption, Zenon
  <2>3. Len(m_bytes) \in 1 .. MaxTokens BY <1>5, <2>1, <2>2
  <2>. QED BY <2>2, <2>3
<1>7. Init'
  <2>1. m_bytes \in Seq(Bytes \cup {Wild}) BY <1>1 DEF TextTypes
  <2>2. max_idx' = Len(m_bytes) - 1 BY <1>1 DEF max_idx
  <2>3. sig' \in [0 .. max_idx' -> Bytes \cup {Wild}]
    <3>1. \A j \in 0 .. Len(m_bytes) - 1 : m_bytes[j + 1] \in Bytes \cup {Wild}
      BY <2>1
    <3>. QED BY <1>1, <2>2, <3>1
  <2>. QED BY <1>1, <1>4, <1>6, <2>2, <2>3 DEF Init
<1>8. ScanInv' BY <1>7, InitScanInv, PTL
<1>9. TextTypes' /\ Decoded'
  <2>1. TextTypes' BY <1>1 DEF TextTypes
  <2>2. Decoded' BY <1>1 DEF Decoded
  <2>. QED BY <2>1, <2>2
<1>10. Handed' BY <1>1, <1>5, <1>8 DEF Handed
<1>. QED BY <1>1, <1>9, <1>10 DEF TextInv

LEMMA ScanStepTextInv ==
    ASSUME TextInv, ScanStep
    PROVE  TextInv'
<1>1. /\ TextTypes /\ Decoded /\ Handed /\ ~parsing /\ Next
      /\ UNCHANGED <<tokens, m_bytes, parsing>>
  BY DEF TextInv, ScanStep, textVars
<1>2. ScanInv' BY <1>1, NextScanInv DEF Handed
<1>3. UNCHANGED <<sig, length>>
  BY <1>1 DEF Next, Mismatch, CompareNext, Found, NotFound, input
<1>4. TextTypes' /\ Decoded'
  <2>1. TextTypes' BY <1>1 DEF TextTypes
  <2>2. Decoded' BY <1>1 DEF Decoded
  <2>. QED BY <2>1, <2>2
<1>5. Handed' BY <1>1, <1>2, <1>3 DEF Handed
<1>. QED BY <1>1, <1>4, <1>5 DEF TextInv

LEMMA NextTextInv == TextInv /\ [TextNext]_<<textVars, parsing, vars>> => TextInv'
<1> SUFFICES ASSUME TextInv, [TextNext]_<<textVars, parsing, vars>> PROVE TextInv'
  OBVIOUS
<1>1. CASE ReadByte BY <1>1, ReadByteTextInv
<1>2. CASE ReadWildcard BY <1>2, ReadWildcardTextInv
<1>3. CASE PassOver BY <1>3, PassOverTextInv
<1>4. CASE StartScan BY <1>4, StartScanTextInv
<1>5. CASE ScanStep BY <1>5, ScanStepTextInv
<1>6. CASE UNCHANGED <<textVars, parsing, vars>>
  <2>1. TextTypes' /\ Decoded'
    <3>1. TextTypes' BY <1>6 DEF TextInv, TextTypes, textVars
    <3>2. Decoded' BY <1>6 DEF TextInv, Decoded, textVars
    <3>. QED BY <3>1, <3>2
  <2>2. ASSUME parsing PROVE Reading'
    <3>1. Reading BY <2>2 DEF TextInv
    <3>2. Placed' BY <1>6, <3>1 DEF Reading, Placed, textVars, Looking
    <3>. QED BY <1>6, <3>1, <3>2 DEF Reading, vars, textVars
  <2>3. ASSUME ~parsing PROVE Handed'
    <3>1. Handed BY <2>3 DEF TextInv
    <3>2. ScanInv' BY <1>6, <3>1, NextScanInv DEF Handed
    <3>. QED BY <1>6, <3>1, <3>2 DEF Handed, vars, input, textVars
  <2>. QED BY <1>6, <2>1, <2>2, <2>3 DEF TextInv
<1>. QED BY <1>1, <1>2, <1>3, <1>4, <1>5, <1>6 DEF TextNext

------------------------------------------------------------------------------

\* The scan that is handed the pattern looks for what the tokens stand for.
LEMMA TextInvFindsSignature == TextInv => FindsSignature
<1> SUFFICES ASSUME TextInv, ~parsing, pc = "done" PROVE FindsSignature
  BY DEF FindsSignature
<1> DEFINE kept == Kept(tokens)
           Here(place) == \A k \in 1 .. Len(kept) :
               kept[k] = <<"?">> \/ memory[place + k - 1] = Value(kept[k])
           Places == {place \in 0 .. module_size - Len(kept) : Here(place)}
<1>1. /\ TextTypes /\ Decoded /\ ScanInv
      /\ length = Len(m_bytes) /\ length = Len(kept)
      /\ sig = [k \in 0 .. length - 1 |-> m_bytes[k + 1]]
  BY DEF TextInv, Handed
<1>2. /\ max_idx \in Nat /\ length = max_idx + 1
      /\ scan_end \in Nat /\ module_size = scan_end + length
  BY <1>1, Sizing DEF ScanInv
<1>3. tokens \in Seq(Tokens) /\ Len(tokens) \in Nat /\ length <= Len(tokens)
  BY <1>1 DEF TextTypes, Decoded
<1>4. ASSUME NEW k \in 1 .. length
      PROVE  /\ kept[k] = Token(tokens, k)
             /\ sig[k - 1] = Meaning(Token(tokens, k))
             /\ sig[k - 1] = Wild <=> Token(tokens, k) = <<"?">>
  <2>1. kept[k] = Token(tokens, k)
    <3>1. CASE Last(tokens) = <<"?">>
      <4>1. kept = SubSeq(tokens, 1, Len(tokens) - 1) BY <3>1, Zenon DEF Kept, Front
      <4> HIDE DEF kept
      <4>2. Len(tokens) # 0 BY <1>2, <1>3
      <4>3. /\ Len(kept) = Len(tokens) - 1
            /\ \A l \in 1 .. Len(tokens) - 1 : kept[l] = tokens[l]
        BY <1>3, <4>1, <4>2, FrontEntries
      <4>4. kept[k] = tokens[k] BY <1>1, <4>3
      <4>. QED BY <4>4 DEF Token
    <3>2. CASE Last(tokens) # <<"?">>
      BY <3>2, Zenon DEF Kept, Token
    <3>. QED BY <3>1, <3>2
  <2>2. sig[k - 1] = m_bytes[k]
    <3>1. k - 1 \in 0 .. length - 1 /\ (k - 1) + 1 = k BY <1>2
    <3>. QED BY <1>1, <3>1
  <2>3. m_bytes[k] = Meaning(Token(tokens, k)) BY <1>1, Zenon DEF Decoded
  <2>4. Meaning(Token(tokens, k)) = Wild <=> Token(tokens, k) = <<"?">>
    <3>1. k \in 1 .. Len(tokens) BY <1>2, <1>3
    <3>2. Wild \notin Bytes BY ScanAssumption, Zenon
    <3>3. IsWildcard(tokens, k) \/ IsByte(tokens, k) BY <1>3, <3>1, TokenKinds
    <3>. QED BY <3>2, <3>3, Zenon DEF IsWildcard, IsByte
  <2>. QED BY <2>1, <2>2, <2>3, <2>4, Zenon
<1> HIDE DEF kept
<1>5. ASSUME NEW place \in 0 .. scan_end
      PROVE  Here(place) <=> \A j \in 0 .. max_idx : Fits(place, j)
  <2>1. ASSUME NEW k \in 1 .. length
        PROVE  /\ kept[k] = <<"?">> \/ memory[place + k - 1] = Value(kept[k]) <=> Fits(place, k - 1)
    <3>1. place + k - 1 = place + (k - 1) BY <1>2
    <3>2. CASE kept[k] = <<"?">> BY <1>4, <3>2, Zenon DEF Fits
    <3>3. CASE kept[k] # <<"?">>
      <4>1. sig[k - 1] = Value(kept[k]) /\ sig[k - 1] # Wild
        BY <1>4, <3>3, Zenon DEF Meaning
      <4>. QED BY <3>1, <3>3, <4>1, Zenon DEF Fits
    <3>. QED BY <3>2, <3>3
  <2>2. ASSUME Here(place), NEW j \in 0 .. max_idx PROVE Fits(place, j)
    <3>1. j + 1 \in 1 .. length /\ (j + 1) - 1 = j BY <1>2
    <3>2. kept[j + 1] = <<"?">> \/ memory[place + (j + 1) - 1] = Value(kept[j + 1])
      BY <1>1, <2>2, <3>1
    <3>3. Fits(place, (j + 1) - 1) BY <2>1, <3>1, <3>2
    <3>. QED BY <3>1, <3>3
  <2>3. ASSUME \A j \in 0 .. max_idx : Fits(place, j) PROVE Here(place)
    <3>1. \A k \in 1 .. length : k - 1 \in 0 .. max_idx BY <1>2
    <3>. QED BY <1>1, <2>1, <2>3, <3>1
  <2>. QED BY <2>2, <2>3
<1>6. Places = Matches(scan_end)
  <2>1. module_size - Len(kept) = scan_end BY <1>1, <1>2
  <2> HIDE DEF Here
  <2>. QED BY <1>5, <2>1 DEF Matches
<1>7. IF result = None
      THEN Matches(scan_end) = {}
      ELSE result \in Matches(scan_end) /\ Matches(result - 1) = {}
  BY <1>1, ScanInvFirstMatch DEF FirstMatch
<1>8. result \in Nat \cup {None} BY <1>1 DEF ScanInv, TypeOK
<1>9. IF result = None
      THEN Places = {}
      ELSE result \in Places /\ \A place \in Places : result <= place
  <2> HIDE DEF Places
  <2>1. CASE result = None BY <1>6, <1>7, <2>1
  <2>2. CASE result # None
    <3>1. result \in Nat /\ result \in Places BY <1>6, <1>7, <1>8, <2>2
    <3>2. ASSUME NEW place \in Places, place < result PROVE FALSE
      <4>1. place \in Int /\ 0 <= place /\ \A j \in 0 .. max_idx : Fits(place, j)
        BY <1>2, <1>6 DEF Matches
      <4>2. place \in 0 .. result - 1 BY <3>1, <3>2, <4>1
      <4>3. place \in Matches(result - 1) BY <4>1, <4>2 DEF Matches
      <4>. QED BY <1>7, <2>2, <4>3
    <3>3. \A place \in Places : place \in Int BY <1>2, <1>6 DEF Matches
    <3>. QED BY <2>2, <3>1, <3>2, <3>3
  <2>. QED BY <2>1, <2>2
<1>. QED BY <1>9 DEF FindsSignature, kept, Kept

\* However a signature is written, of whatever length and over whatever bytes,
\* what is found is the first place where the memory has the bytes that it was
\* written for: no digit, wildcard or space of the text is taken for another.
THEOREM SignatureFound == TextSpec => []FindsSignature
<1>. QED BY InitTextInv, NextTextInv, TextInvFindsSignature, PTL DEF TextSpec

\* The scan that the parser starts is one that PatternScan describes.
THEOREM ScanOfText == TextSpec => [](FirstMatch /\ SearchesAgree)
<1>1. TextInv => FirstMatch /\ SearchesAgree
  <2>1. CASE parsing BY <2>1 DEF TextInv, Reading, FirstMatch, SearchesAgree
  <2>2. CASE ~parsing
    BY <2>2, ScanInvFirstMatch, ScanInvSearchesAgree DEF TextInv, Handed
  <2>. QED BY <2>1, <2>2
<1>. QED BY <1>1, InitTextInv, NextTextInv, PTL DEF TextSpec

------------------------------------------------------------------------------

\* What is left to do gets less with every step: characters to be read, then
\* places to be tried, then entries to be compared.
Nearer ==
    \/ parsing /\ ~parsing'
    \/ parsing /\ parsing' /\ i' = i + 1 /\ i' <= Len(ida_sig)
    \/ /\ ~parsing /\ ~parsing'
       /\ \/ pc = "scan" /\ pc' = "done"
          \/ current_idx < current_idx' /\ current_idx' <= scan_end + length
          \/ current_idx' = current_idx /\ sig_idx' < sig_idx /\ sig_idx' \in Nat

\* The parser has an action for the character it looks at.
Readable ==
    parsing /\ i # Len(ida_sig) =>
        \/ ida_sig[i] = " " \/ ida_sig[i] = "?"
        \/ IsDigit(ida_sig[i])

\* Whatever the parser looks at is something one of its actions is for.
LEMMA TextInvReadable == TextInv => Readable
<1> SUFFICES ASSUME TextInv, parsing, i # Len(ida_sig)
             PROVE  ida_sig[i] = Blank \/ ida_sig[i] = Question \/ IsDigit(ida_sig[i])
  BY Zenon DEF Readable, Blank, Question
<1>1. TextTypes /\ Reading /\ More BY DEF TextInv, More
<1>2. ida_sig \in Seq(Chars) BY <1>1, Zenon DEF Reading
<1>3. PICK start : /\ LaidOut(tokens, Len(tokens), ida_sig, start)
                   /\ \E k, d : Looking(start, k, d)
  BY <1>1, Zenon DEF Reading, Placed
<1>4. PICK k, d : Looking(start, k, d) BY <1>3, Zenon
<1>5. AtWildcard(k, d) \/ AtFirst(k, d) \/ AtSecond(k, d) \/ AtSpace(start, k, d)
  BY <1>1, <1>2, <1>3, <1>4, LookedAt, Zenon
<1>. QED BY <1>5, Zenon DEF AtWildcard, AtFirst, AtSecond, AtSpace, IsByte

\* The parser does not run past the end of the text.
LEMMA TextInvInside == TextInv /\ parsing => i \in Nat /\ Len(ida_sig) \in Nat /\ i <= Len(ida_sig)
<1> SUFFICES ASSUME TextInv, parsing
             PROVE  i \in Nat /\ Len(ida_sig) \in Nat /\ i <= Len(ida_sig)
  OBVIOUS
<1>1. TextTypes /\ Reading BY DEF TextInv
<1>2. ida_sig \in Seq(Chars) BY <1>1, Zenon DEF Reading
<1>3. PICK start : /\ LaidOut(tokens, Len(tokens), ida_sig, start)
                   /\ \E k, d : Looking(start, k, d)
  BY <1>1, Zenon DEF Reading, Placed
<1>4. i \in Nat /\ i <= Len(ida_sig) BY <1>1, <1>2, <1>3, Around, Zenon
<1>5. Len(ida_sig) \in Nat BY <1>2
<1>. QED BY <1>4, <1>5

\* Each step brings the parser or the scan nearer to its end.
LEMMA StepIsNearer == TextInv /\ TextNext => Nearer
<1> SUFFICES ASSUME TextInv, TextNext PROVE Nearer
  OBVIOUS
<1>1. CASE ReadByte \/ ReadWildcard \/ PassOver
  <2>1. /\ parsing /\ i # Len(ida_sig) /\ parsing' = parsing /\ i' = i + 1
    BY <1>1 DEF ReadByte, ReadWildcard, PassOver, More
  <2>2. i' <= Len(ida_sig) BY <2>1, TextInvInside
  <2>. QED BY <2>1, <2>2, Zenon DEF Nearer
<1>2. CASE StartScan BY <1>2 DEF StartScan, Nearer
<1>3. CASE ScanStep
  <2>1. ~parsing /\ ~parsing' /\ Next /\ ScanInv
    BY <1>3 DEF ScanStep, TextInv, Handed
  <2>2. TypeOK /\ max_idx \in Nat /\ length = max_idx + 1 /\ scan_end \in Nat /\ current_idx \in Nat
    BY <2>1, Sizing DEF ScanInv, TypeOK
  <2>3. CASE Mismatch
    <3>1. shift_table(memory[current_idx + max_idx]) \in 1 .. length BY <2>2, ShiftTable
    <3>2. current_idx < current_idx' /\ current_idx' <= scan_end + length
      <4> DEFINE shift == shift_table(memory[current_idx + max_idx])
      <4>1. /\ current_idx' = current_idx + shift /\ current_idx <= scan_end
            /\ shift \in 1 .. length
        BY <2>3, <3>1 DEF Mismatch
      <4> HIDE DEF shift
      <4>. QED BY <2>2, <4>1
    <3>. QED BY <2>1, <3>2, Zenon DEF Nearer
  <2>4. CASE CompareNext
    <3>1. sig_idx \in Nat /\ sig_idx > 0 BY <2>2, <2>4 DEF TypeOK, CompareNext
    <3>2. current_idx' = current_idx /\ sig_idx' = sig_idx - 1 BY <2>4 DEF CompareNext
    <3>3. sig_idx' < sig_idx /\ sig_idx' \in Nat BY <3>1, <3>2
    <3>. QED BY <2>1, <3>2, <3>3, Zenon DEF Nearer
  <2>5. CASE Found \/ NotFound
    BY <2>1, <2>5 DEF Found, NotFound, Nearer
  <2>. QED BY <2>1, <2>3, <2>4, <2>5 DEF Next
<1>. QED BY <1>1, <1>2, <1>3 DEF TextNext

\* The parser is never without an action for what it looks at, and the parser
\* and the scan come nearer to their ends with every step: the part of
\* Terminates that is about the code, and not about its being executed.
THEOREM SearchComesNearer ==
    TextSpec => []Readable /\ [][Nearer]_<<textVars, parsing, vars>>
<1>1. TextInv /\ [TextNext]_<<textVars, parsing, vars>>
        => [Nearer]_<<textVars, parsing, vars>>
  BY StepIsNearer
<1>. QED BY <1>1, InitTextInv, NextTextInv, TextInvReadable, PTL DEF TextSpec
==============================================================================
