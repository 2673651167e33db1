----------------------------- MODULE PatternScan -----------------------------
(***************************************************************************)
(* Searching memory for a pattern (range.cpp) and a script's byte code for *)
(* one (script_patch.cpp).                                                 *)
(*                                                                         *)
(* scan_pattern is the Boyer-Moore-Horspool algorithm for patterns with    *)
(* wildcards, a step per byte compared.  Everything is indexed from 0, as  *)
(* in the code.  The pattern is not empty and not longer than the memory:  *)
(* batches scan the game's whole module, and patches its shop_controller.  *)
(***************************************************************************)
EXTENDS Integers

CONSTANTS
    Bytes,      \* the values of a byte
    Wild,       \* an entry of a pattern that matches every byte: an empty optional
    None,       \* the empty result
    Lengths,    \* how long patterns may be
    Sizes,      \* how long the memory may be
    PageSize    \* how long a page of a script's byte code is

ASSUME ScanAssumption ==
    /\ Wild \notin Bytes
    /\ None \notin Int
    /\ Lengths \subseteq Nat \ {0}
    /\ Sizes \subseteq Nat
    /\ PageSize \in Nat \ {0}

VARIABLES
    sig, length,            \* the pattern
    memory, module_size,    \* what is searched
    current_idx,            \* where in the memory the pattern is held against
    sig_idx,                \* the entry of the pattern to be compared next
    result,                 \* the first match, once it is found
    pc                      \* "scan" until scan_pattern returns

input == <<sig, length, memory, module_size>>
vars == <<input, current_idx, sig_idx, result, pc>>

max_idx == length - 1
scan_end == module_size - length

TypeOK ==
    /\ length \in Lengths
    /\ module_size \in Sizes
    /\ length <= module_size
    /\ sig \in [0 .. max_idx -> Bytes \cup {Wild}]
    /\ memory \in [0 .. module_size - 1 -> Bytes]
    /\ current_idx \in Nat
    /\ sig_idx \in 0 .. max_idx
    /\ result \in Nat \cup {None}
    /\ pc \in {"scan", "done"}

Init ==
    /\ length \in Lengths
    /\ module_size \in {s \in Sizes : length <= s}
    /\ sig \in [0 .. max_idx -> Bytes \cup {Wild}]
    /\ memory \in [0 .. module_size - 1 -> Bytes]
    /\ current_idx = 0
    /\ sig_idx = max_idx
    /\ result = None
    /\ pc = "scan"

------------------------------------------------------------------------------
(* scan_pattern *)

\* Mutation: the shift table does not know about wildcards.
NoWildCard == -1

\* The last wildcard before the pattern's last entry, or -1.
wild_card_idx ==
    CHOOSE i \in -1 .. max_idx - 1 :
        /\ i # -1 => sig[i] = Wild
        /\ \A j \in i + 1 .. max_idx - 1 : sig[j] # Wild

\* Mutation: the last entry of the pattern is put into the table as well.
shift_table_of_all(b) ==
    max_idx - (CHOOSE i \in wild_card_idx .. max_idx :
                   /\ i # wild_card_idx => sig[i] = b
                   /\ \A j \in i + 1 .. max_idx : sig[j] # b)

\* How far the pattern may be moved on if b is the byte at its last entry: to
\* the last place before that where it has b or a wildcard, or all the way.
shift_table(b) ==
    max_idx - (CHOOSE i \in wild_card_idx .. max_idx - 1 :
                   /\ i # wild_card_idx => sig[i] = b
                   /\ \A j \in i + 1 .. max_idx - 1 : sig[j] # b)

\* sig's entry j fits the byte under it when the pattern is held against i.
Fits(i, j) == sig[j] = Wild \/ memory[i + j] = sig[j]

Mismatch ==
    /\ pc = "scan"
    /\ current_idx <= scan_end
    /\ ~Fits(current_idx, sig_idx)
    /\ current_idx' = current_idx + shift_table(memory[current_idx + max_idx])
    /\ sig_idx' = max_idx
    /\ UNCHANGED <<input, result, pc>>

CompareNext ==
    /\ pc = "scan"
    /\ current_idx <= scan_end
    /\ Fits(current_idx, sig_idx)
    /\ sig_idx > 0
    /\ sig_idx' = sig_idx - 1
    /\ UNCHANGED <<input, current_idx, result, pc>>

Found ==
    /\ pc = "scan"
    /\ current_idx <= scan_end
    /\ Fits(current_idx, sig_idx)
    /\ sig_idx = 0
    /\ result' = current_idx
    /\ pc' = "done"
    /\ UNCHANGED <<input, current_idx, sig_idx>>

NotFound ==
    /\ pc = "scan"
    /\ current_idx > scan_end
    /\ pc' = "done"
    /\ UNCHANGED <<input, current_idx, sig_idx, result>>

Next == Mismatch \/ CompareNext \/ Found \/ NotFound

Spec == Init /\ [][Next]_vars

------------------------------------------------------------------------------
(* The two searches that compare at every place *)

\* The places from 0 at which pattern_matches holds.
Matches(last) == {i \in 0 .. last : \A j \in 0 .. max_idx : Fits(i, j)}

\* range::scan_all: its loop ends when it reaches scan_end.
scan_all == Matches(scan_end - 1)

\* A script's byte code is in pages; the last one may be shorter.
pages ==
    [n \in 0 .. (module_size - 1) \div PageSize |->
        [k \in {k \in 0 .. PageSize - 1 : n * PageSize + k < module_size} |->
            memory[n * PageSize + k]]]

\* Mutation: the page's number is not taken off the index.
CodeAddressInFirstPage(index) == pages[0][index % PageSize]

\* script_patch::get_code_address
get_code_address(index) == pages[index \div PageSize][index % PageSize]

\* The places in the byte code that match the pattern; the last is not tried.
code_locations ==
    {i \in 0 .. module_size - length - 1 :
        \A j \in 0 .. max_idx : sig[j] = Wild \/ sig[j] = get_code_address(i + j)}

First(S) == IF S = {} THEN None ELSE CHOOSE i \in S : \A k \in S : i <= k

\* script_patch::get_code_location_by_pattern
get_code_location_by_pattern == First(code_locations)

------------------------------------------------------------------------------
(* Properties *)

\* scan_pattern returns the first place of the memory that matches the pattern,
\* the last possible one included, and nothing only if there is none: no shift
\* jumps over a match, whatever wildcards the pattern has.
FirstMatch ==
    pc = "done" =>
        IF result = None
        THEN Matches(scan_end) = {}
        ELSE result \in Matches(scan_end) /\ Matches(result - 1) = {}

\* The three searches agree, but for the last place: scan finds a match there,
\* scan_all and the search in byte code do not look at it.
SearchesAgree ==
    pc = "done" =>
        /\ get_code_location_by_pattern = IF result = scan_end THEN None ELSE result
        /\ result \in scan_all \cup {None, scan_end}
        /\ \A i \in scan_all : result # None /\ result <= i

\* scan_pattern returns: each shift moves the pattern on.
Terminates == <>(pc = "done")
==============================================================================
