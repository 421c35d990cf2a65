----------------------------- MODULE FaultStore -----------------------------
(***************************************************************************)
(* The fault store: flight::FaultManager (fault_manager.cpp), a fixed      *)
(* array with one record for each code.  Its callers are the tasks of the  *)
(* flight loop: some report a fault at every event, some hold a condition  *)
(* they look at again in every pass, and any of them may clear it.  More   *)
(* than one task uses a code, with more than one severity: imu_init is an  *)
(* error and then critical, packet_oversize a warning and then an error.   *)
(*                                                                         *)
(* Abstracted: first_ms and last_ms, which nothing decides on; the sum     *)
(* over the codes that health and the log show.                            *)
(***************************************************************************)
EXTENDS Naturals

CONSTANTS
  Codes,        (* FaultCode                                               *)
  MaxCount      (* 0xFFFFFFFF, where a count of occurrences stays          *)

FaultStoreAssumption == MaxCount \in Nat \ {0}

VARIABLES
  records,        (* records_                                              *)
  ever_critical,
  worst,          (* history: of each code, the worst severity named since *)
                  (* it last became active                                 *)
  episodes        (* history: of each code, the times it became active or  *)
                  (* was reported again, up to MaxCount                    *)

vars == <<records, ever_critical, worst, episodes>>

(* FaultSeverity: warning, error and critical, in the order of the enum. *)
Severities == 0 .. 2
Critical == 2

Record == [active : BOOLEAN, severity : Severities, occurrences : 0 .. MaxCount]

-----------------------------------------------------------------------------
CountedPast(n) == n + 1   \* mutant: the count does not stay at its maximum

Counted(n) == IF n < MaxCount THEN n + 1 ELSE n

Downgraded(r, severity) ==   \* mutant: the latest severity wins
  [active |-> TRUE, severity |-> severity, occurrences |-> Counted(r.occurrences)]

(* report() on one record: severity never falls while the fault is active. *)
Reported(r, severity) ==
  [active |-> TRUE,
   severity |-> IF ~r.active \/ severity > r.severity THEN severity ELSE r.severity,
   occurrences |-> Counted(r.occurrences)]

(* hold(): a new episode is reported, an old one only escalated. *)
Held(r, severity) ==
  IF ~r.active THEN Reported(r, severity)
  ELSE [r EXCEPT !.severity = IF severity > r.severity THEN severity ELSE r.severity]

(* clear(): the history of the code is kept. *)
Cleared(r) == [r EXCEPT !.active = FALSE]

-----------------------------------------------------------------------------
Init ==
  /\ records = [c \in Codes |-> [active |-> FALSE, severity |-> 0, occurrences |-> 0]]
  /\ ever_critical = FALSE
  /\ worst = [c \in Codes |-> 0]
  /\ episodes = [c \in Codes |-> 0]

Worse(c, severity) ==
  IF ~records[c].active \/ severity > worst[c] THEN severity ELSE worst[c]

Report(c, severity) ==
  /\ records' = [records EXCEPT ![c] = Reported(records[c], severity)]
  /\ ever_critical' = (ever_critical \/ severity = Critical)
  /\ worst' = [worst EXCEPT ![c] = Worse(c, severity)]
  /\ episodes' = [episodes EXCEPT ![c] = Counted(episodes[c])]

Hold(c, severity) ==
  /\ records' = [records EXCEPT ![c] = Held(records[c], severity)]
  /\ ever_critical' = (ever_critical \/ severity = Critical)
  /\ worst' = [worst EXCEPT ![c] = Worse(c, severity)]
  /\ episodes' = [episodes EXCEPT ![c] =
                    IF records[c].active THEN episodes[c] ELSE Counted(episodes[c])]

Clear(c) ==
  /\ records' = [records EXCEPT ![c] = Cleared(records[c])]
  /\ UNCHANGED <<ever_critical, worst, episodes>>

Next ==
  \E c \in Codes :
    \/ \E severity \in Severities : Report(c, severity)
    \/ \E severity \in Severities : Hold(c, severity)
    \/ Clear(c)

Spec == Init /\ [][Next]_vars

(* has_critical() *)
HasCritical == \E c \in Codes : records[c].active /\ records[c].severity = Critical

-----------------------------------------------------------------------------
(* Properties. *)

TypeOK ==
  /\ records \in [Codes -> Record]
  /\ ever_critical \in BOOLEAN
  /\ worst \in [Codes -> Severities]
  /\ episodes \in [Codes -> 0 .. MaxCount]

(* An active fault shows the worst severity anyone has named for it since  *)
(* it became active, whoever reports it at a lower one afterwards, so that *)
(* has_critical() sees every critical fault that still applies; and a      *)
(* condition checked in every pass counts once an episode, up to the       *)
(* maximum and never past it.                                              *)
FaultsTruthful ==
  /\ \A c \in Codes : records[c].active => records[c].severity = worst[c]
  /\ \A c \in Codes : records[c].occurrences = episodes[c]
  /\ HasCritical => ever_critical
=============================================================================
