------------------------------- MODULE Patching -------------------------------
(***************************************************************************)
(* Everything the library changes in the game's code: the byte patches of  *)
(* GamePatches in its module and, between them, the patches in the byte    *)
(* code of its scripts (script_patch.cpp, script_patcher_service.cpp,      *)
(* script_patches.hpp), which are written into a copy of the code.         *)
(*                                                                         *)
(* Both patches of the program are for shop_controller, always enabled,    *)
(* and in a copy that is made once: each is located and written once.      *)
(* When the copy is used, and by whom, is in GamePrograms.                 *)
(***************************************************************************)
EXTENDS GamePatches, FiniteSets

CONSTANTS
    ScriptPatches,  \* the patches, in the order in which they are registered
    CodeSizes,      \* how long shop_controller's byte code may be
    PageSize,       \* how long a page of it is
    Wild, None

ASSUME ScriptsAssumption ==
    /\ CodeSizes \subseteq Nat
    /\ PageSize \in Nat \ {0}
    /\ None \notin Int
    /\ ScriptPatches \in Seq([m_pattern : Seq(Bytes \cup {Wild}), m_offset : Nat,
                              m_patch : Seq(Bytes)])
    /\ \A i \in DOMAIN ScriptPatches :
        /\ \A n \in CodeSizes : Len(ScriptPatches[i].m_pattern) < n

VARIABLES
    code,               \* shop_controller's byte code, or None if it is not loaded
    m_script_patches,   \* has backend::loop registered the patches?
    m_bytecode,         \* the copy in m_script_data, or None
    damage              \* of an update: "none", "throws", or "overrun"

scriptVars == <<code, m_script_patches, m_bytecode, damage>>

Codes == UNION {[0 .. n - 1 -> Bytes] : n \in CodeSizes}

PatchingInit ==
    /\ Init
    /\ code = None
    /\ m_script_patches = FALSE
    /\ m_bytecode = None
    /\ damage = "none"

------------------------------------------------------------------------------
(* script_patch::update *)

Size(copy) == Cardinality(DOMAIN copy)

\* get_code_location_by_pattern, with its pattern and code
Search(pattern, copy) ==
    INSTANCE PatternScan WITH
        Lengths <- {Len(pattern)}, Sizes <- CodeSizes,
        sig <- [j \in 0 .. Len(pattern) - 1 |-> pattern[j + 1]], length <- Len(pattern),
        memory <- copy, module_size <- Size(copy),
        current_idx <- 0, sig_idx <- 0, result <- None, pc <- "done"

Location(patch, copy) == Search(patch.m_pattern, copy)!get_code_location_by_pattern

\* The bytes that a patch located at a place replaces.
Extent(patch, place) ==
    place + patch.m_offset .. place + patch.m_offset + Len(patch.m_patch) - 1

\* Does the memcpy stay in the page it begins in?
InPage(patch, place, copy) ==
    \A i \in Extent(patch, place) :
        i \in DOMAIN copy /\ i \div PageSize = (place + patch.m_offset) \div PageSize

Enabled(patch, place, copy) ==
    [i \in DOMAIN copy |->
        IF i \in Extent(patch, place) THEN patch.m_patch[i - place - patch.m_offset + 1]
        ELSE copy[i]]

\* Mutation: a patch is written where its pattern is found, whatever its offset.
UpdateIgnoringOffset(patch, state) ==
    LET place == Location(patch, state.copy)
    IN  IF state.damage # "none" THEN state
        ELSE IF place = None THEN [state EXCEPT !.damage = "throws"]
        ELSE IF ~InPage(patch, place, state.copy) THEN [state EXCEPT !.damage = "overrun"]
        ELSE [state EXCEPT !.copy = Enabled([patch EXCEPT !.m_offset = 0], place, state.copy)]

\* m_ip is zero, and m_bool null.  result.value() throws if there is no place.
Update(patch, state) ==
    LET place == Location(patch, state.copy)
    IN  IF state.damage # "none" THEN state
        ELSE IF place = None THEN [state EXCEPT !.damage = "throws"]
        ELSE IF ~InPage(patch, place, state.copy) THEN [state EXCEPT !.damage = "overrun"]
        ELSE [state EXCEPT !.copy = Enabled(patch, place, state.copy)]

------------------------------------------------------------------------------
(* script_patcher_service, on the game's script thread *)

\* on_script_load: the copy is made, and all patches update it in their order.
Updates(program_code) ==
    LET updates[k \in 0 .. Len(ScriptPatches)] ==
            IF k = 0 THEN [copy |-> program_code, damage |-> damage]
            ELSE Update(ScriptPatches[k], updates[k - 1])
    IN  updates

OnScriptLoad(program_code) ==
    LET state == Updates(program_code)[Len(ScriptPatches)]
    IN  m_bytecode' = state.copy /\ damage' = state.damage

ScriptStep ==
    /\ pc = "running"
    /\ damage = "none"
    /\ UNCHANGED vars

\* The game loads shop_controller; init_native_tables is hooked.
LoadProgram ==
    /\ ScriptStep
    /\ code = None
    /\ code' \in Codes
    /\ IF m_script_patches THEN OnScriptLoad(code') ELSE UNCHANGED <<m_bytecode, damage>>
    /\ UNCHANGED m_script_patches

\* backend::loop's first tick registers both patches and looks at what is loaded.
RegisterScriptPatches ==
    /\ ScriptStep
    /\ ~m_script_patches
    /\ m_script_patches' = TRUE
    /\ IF code # None THEN OnScriptLoad(code) ELSE UNCHANGED <<m_bytecode, damage>>
    /\ UNCHANGED code

\* ~script_patcher_service
ServiceReset ==
    /\ m_bytecode' = None
    /\ m_script_patches' = FALSE
    /\ UNCHANGED <<code, damage>>

MainNext ==
    /\ damage = "none"
    /\ Next
    /\ IF pc = "reset" THEN ServiceReset ELSE UNCHANGED scriptVars

PatchingNext == LoadProgram \/ RegisterScriptPatches \/ MainNext

PatchingSpec == PatchingInit /\ [][PatchingNext]_<<vars, scriptVars>>

------------------------------------------------------------------------------
(* Properties *)

Places(patch, copy) ==
    {i \in 0 .. Size(copy) - Len(patch.m_pattern) :
        \A j \in 1 .. Len(patch.m_pattern) :
            patch.m_pattern[j] \in {Wild, copy[i + j - 1]}}

Place(patch, program) == CHOOSE place \in Places(patch, program) : TRUE

\* The code with some of the patches written where it has their patterns.
PatchedBy(K, program) ==
    [i \in DOMAIN program |->
        LET Writes(k) == i \in Extent(ScriptPatches[k], Place(ScriptPatches[k], program))
        IN  IF \E k \in K : Writes(k)
            THEN LET patch == ScriptPatches[CHOOSE k \in K : Writes(k)]
                 IN  patch.m_patch[i - Place(patch, program) - patch.m_offset + 1]
            ELSE program[i]]

\* Each pattern fits the code at one place ("the only instance ... in the
\* script", script_patches.hpp), which is not the last, and the patches before
\* it change nothing about that; each patch lies in one page; none writes what
\* another one writes.
Unambiguous(program) ==
    /\ \A k \in DOMAIN ScriptPatches :
        \E place \in DOMAIN program : Places(ScriptPatches[k], program) = {place}
    /\ \A k \in DOMAIN ScriptPatches :
        LET patch == ScriptPatches[k]
            place == Place(patch, program)
        IN  /\ Places(patch, PatchedBy(1 .. k - 1, program)) = {place}
            /\ place < Size(program) - Len(patch.m_pattern)
            /\ InPage(patch, place, program)
            /\ \A j \in 1 .. k - 1 :
                LET other == ScriptPatches[j]
                IN  Extent(patch, place) \cap Extent(other, Place(other, program)) = {}

\* Whether shop_controller is loaded before its patches are registered or
\* afterwards, its copy is its code with all patches written in, each at its
\* offset from where the game's code has the pattern, and nothing else changed.
CopyIsPatched ==
    code # None /\ m_script_patches /\ Unambiguous(code) =>
        damage = "none" /\ m_bytecode = PatchedBy(DOMAIN ScriptPatches, code)
==============================================================================
