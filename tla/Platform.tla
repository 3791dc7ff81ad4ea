------------------------------ MODULE Platform ------------------------------
(***************************************************************************)
(* The wallet platform of src/rs/platform.rs over the flash store and the  *)
(* secure element.  An entry point of security/nxp/store.c is the set of   *)
(* its outcomes [se, ok]; the exchanges inside are the subject of          *)
(* NxpStore.  e.chip is what the element holds, through resets; e.report   *)
(* and e.scanned are the statics `state' and `scanned', where READY stands *)
(* for AUTH_REJECTED too and UNAVAILABLE for INCOMPLETE: nothing outside   *)
(* of store.c tells these apart but by their texts.                        *)
(***************************************************************************)
EXTENDS Storage

Elements == [chip : {"none", "partial", "open", "pin"}, scanned : BOOLEAN,
             report : {"UNAVAILABLE", "EMPTY", "READY"}]

Answer(e, ok) == [se |-> e, ok |-> ok]
ElementOff(e) == [e EXCEPT !.scanned = FALSE, !.report = "UNAVAILABLE"]

\* scan(): the report of the three objects, or of an exchange that failed.
ScanReport(e) == CASE e.chip = "none"    -> "EMPTY"
                   [] e.chip = "partial" -> "UNAVAILABLE"
                   [] OTHER              -> "READY"
Scanned(e) == {[e EXCEPT !.scanned = TRUE, !.report = r] : r \in {ScanReport(e), "UNAVAILABLE"}}

NxpRefresh(e) == {Answer(f, f.report \in {"EMPTY", "READY"}) : f \in Scanned(e)}

\* app_nxp_seed_exists(): ret 0 or 1, negative when the report says neither.
NxpSeedExists(e) ==
  {[se |-> f, ret |-> CASE f.report = "EMPTY" -> 0
                        [] f.report = "READY" -> 1
                        [] OTHER -> -1] : f \in IF e.scanned THEN {e} ELSE Scanned(e)}

\* app_nxp_initialize(): only an element scanned empty is written; a failure on the way leaves any part.
NxpInitialize(e, pin) ==
  UNION {IF f.report # "EMPTY" THEN {Answer(f, FALSE)}
         ELSE {Answer([f EXCEPT !.chip = pin, !.report = "READY"], TRUE),
               Answer([f EXCEPT !.report = "UNAVAILABLE"], FALSE)}
              \cup {Answer([f EXCEPT !.chip = c, !.report = "UNAVAILABLE"], FALSE) : c \in {"partial", pin}}
         : f \in Scanned(e)}

\* app_nxp_unlock(): the attempt limit rejects the right PIN too.
NxpUnlock(e, right) ==
  UNION {IF f.report # "READY" THEN {Answer([f EXCEPT !.scanned = e.scanned], FALSE)}
         ELSE {Answer([e EXCEPT !.report = r], FALSE) : r \in {"READY", "UNAVAILABLE"}}
              \cup (IF right THEN {Answer([e EXCEPT !.report = "READY"], TRUE)} ELSE {})
         : f \in Scanned(e)}

\* app_nxp_erase(): trusts the scan after the deletion, not its answer.
NxpErase(e) ==
  {Answer([e EXCEPT !.scanned = TRUE, !.chip = "none", !.report = "EMPTY"], TRUE)}
  \cup {Answer([e EXCEPT !.scanned = TRUE, !.chip = c, !.report = "UNAVAILABLE"], FALSE) : c \in {e.chip, "none"}}

-----------------------------------------------------------------------------
(* platform.rs; nxp: the build has the secure element (app_nxp_enabled()). *)

Effect(s, e, ok) == [store |-> s, se |-> e, ok |-> ok]

\* seed_exists(): with the secure element a seed in flash is an error.
SeedExists(nxp, s, e) ==
  UNION {IF ~nxp THEN {[store |-> o.store, se |-> e, ret |-> o.ret]}
         ELSE IF o.ret # 0 THEN {[store |-> o.store, se |-> e, ret |-> -1]}
         ELSE {[store |-> o.store, se |-> a.se, ret |-> a.ret] : a \in NxpSeedExists(e)}
         : o \in Exists(s, "seed")}

\* secure_seed_initialize() and write_seed().
InitializeSeed(nxp, s, e, pin) ==
  IF nxp
  THEN UNION {IF o.ret # 0 THEN {Effect(o.store, e, FALSE)}
              ELSE {Effect(o.store, a.se, a.ok) : a \in NxpInitialize(e, pin)}
              : o \in Exists(s, "seed")}
  ELSE {Effect(o.store, e, o.ret = 0) : o \in Write(s, "seed", pin)}

\* secure_seed_unlock() and read_seed(): the PIN opens what is stored.
UnlockSeed(nxp, s, e, right) ==
  IF nxp THEN {Effect(s, a.se, a.ok) : a \in NxpUnlock(e, right)}
         ELSE {Effect(o.store, e, right /\ o.ret > 0) : o \in Read(s, "seed")}

\* secure_seed_refresh(); without the element app_nxp_refresh() fails (security/nxp/disabled.c:7).
RefreshSeed(nxp, s, e) ==
  IF ~nxp THEN {Effect(s, e, FALSE)}
  ELSE UNION {IF ~a.ok THEN {Effect(s, a.se, FALSE)}
              ELSE {Effect(o.store, a.se, o.ret = 0) : o \in Exists(s, "seed")}
              : a \in NxpRefresh(e)}

=============================================================================
