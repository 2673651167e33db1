----------------------------- MODULE PatternText -----------------------------
(***************************************************************************)
(* A signature written as text, "48 8B ? C8", becomes a pattern            *)
(* (pattern.cpp), which is then searched for (PatternScan).                *)
(*                                                                         *)
(* The text is read a character per step.  Every character but the last is *)
(* looked at as the first digit of a byte, together with the one after it; *)
(* the second digit of a byte is passed over only because what follows it  *)
(* is no digit.                                                            *)
(***************************************************************************)
EXTENDS PatternScan, SequencesExt

CONSTANTS
    Digits,     \* a function from the characters that are hex digits to their values
    Written,    \* the bytes that occur in signatures, as pairs of digits
    MaxTokens   \* how many bytes and wildcards a signature may have

\* What a byte that is written as two digits stands for.
Value(pair) == Digits[pair[1]] * 16 + Digits[pair[2]]

ASSUME TextAssumption ==
    /\ MaxTokens \in Nat \ {0}
    /\ 1 .. MaxTokens \subseteq Lengths
    /\ {" ", "?"} \cap DOMAIN Digits = {}
    /\ Written \subseteq (DOMAIN Digits) \X (DOMAIN Digits)
    /\ \A pair \in Written : Value(pair) \in Bytes

VARIABLES
    tokens,     \* history: what the signature was written for
    ida_sig,    \* its text, a sequence of characters
    i,          \* the character looked at
    m_bytes,    \* the pattern so far
    parsing     \* until the pattern is complete

textVars == <<tokens, ida_sig, i, m_bytes>>

\* A byte is written as its two digits, a wildcard as one question mark.
Tokens == Written \cup {<<"?">>}

\* Tokens are separated by one space, as in all signatures of pointers.cpp and
\* script_patches.hpp.
Text(ts) == FlattenSeq([k \in 1 .. Len(ts) |-> IF k = 1 THEN ts[k] ELSE <<" ">> \o ts[k]])

\* Any signature but the empty one, and a lone wildcard.
TextInit ==
    /\ tokens \in BoundedSeq(Tokens, MaxTokens) \ {<<>>, << <<"?">> >>}
    /\ ida_sig = Text(tokens)
    /\ i = 1
    /\ m_bytes = <<>>
    /\ parsing = TRUE
    /\ sig = <<>> /\ length = 0
    /\ memory = <<>> /\ module_size = 0
    /\ current_idx = 0 /\ sig_idx = 0
    /\ result = None
    /\ pc = "scan"

------------------------------------------------------------------------------
(* pattern::pattern *)

\* The loop ends before the last character.
More == parsing /\ i # Len(ida_sig)

IsDigit(c) == c \in DOMAIN Digits

\* Mutation: the digits are taken in the wrong order.
ReadByteReversed ==
    /\ More
    /\ IsDigit(ida_sig[i]) /\ IsDigit(ida_sig[i + 1])
    /\ m_bytes' = Append(m_bytes, Value(<<ida_sig[i + 1], ida_sig[i]>>))
    /\ i' = i + 1
    /\ UNCHANGED <<tokens, ida_sig, parsing, vars>>

\* to_hex succeeds for this character and for the one after it.
ReadByte ==
    /\ More
    /\ IsDigit(ida_sig[i]) /\ IsDigit(ida_sig[i + 1])
    /\ m_bytes' = Append(m_bytes, Value(<<ida_sig[i], ida_sig[i + 1]>>))
    /\ i' = i + 1
    /\ UNCHANGED <<tokens, ida_sig, parsing, vars>>

ReadWildcard ==
    /\ More
    /\ ida_sig[i] = "?"
    /\ m_bytes' = Append(m_bytes, Wild)
    /\ i' = i + 1
    /\ UNCHANGED <<tokens, ida_sig, parsing, vars>>

\* A space, or the second digit of a byte.
PassOver ==
    /\ More
    /\ \/ ida_sig[i] = " "
       \/ IsDigit(ida_sig[i]) /\ ~IsDigit(ida_sig[i + 1])
    /\ i' = i + 1
    /\ UNCHANGED <<tokens, ida_sig, m_bytes, parsing, vars>>

\* range::scan hands the pattern and the range to scan_pattern.
StartScan ==
    /\ parsing /\ ~More
    /\ parsing' = FALSE
    /\ length' = Len(m_bytes)
    /\ sig' = [k \in 0 .. Len(m_bytes) - 1 |-> m_bytes[k + 1]]
    /\ module_size' \in {s \in Sizes : Len(m_bytes) <= s}
    /\ memory' \in [0 .. module_size' - 1 -> Bytes]
    /\ sig_idx' = Len(m_bytes) - 1
    /\ UNCHANGED <<textVars, current_idx, result, pc>>

ScanStep == ~parsing /\ Next /\ UNCHANGED <<textVars, parsing>>

TextNext == ReadByte \/ ReadWildcard \/ PassOver \/ StartScan \/ ScanStep

\* Both are loops that nothing else interferes with.
TextSpec ==
    /\ TextInit
    /\ [][TextNext]_<<textVars, parsing, vars>>
    /\ WF_<<textVars, parsing, vars>>(TextNext)

------------------------------------------------------------------------------
(* Properties *)

\* What is found is the first place where the memory has the bytes that the
\* signature was written for, at the distances at which it was written.  A
\* wildcard at the very end does not count: the parser drops it, and with it
\* the demand that there be a byte.
FindsSignature ==
    ~parsing /\ pc = "done" =>
        LET kept == IF Last(tokens) = <<"?">> THEN Front(tokens) ELSE tokens
            At(place) == \A k \in 1 .. Len(kept) :
                kept[k] = <<"?">> \/ memory[place + k - 1] = Value(kept[k])
            Places == {place \in 0 .. module_size - Len(kept) : At(place)}
        IN  IF result = None
            THEN Places = {}
            ELSE result \in Places /\ \A place \in Places : result <= place
==============================================================================
