------------------------------ MODULE FencedLog ------------------------------
(***************************************************************************)
(* What a workspace lease promises to the Mission event log, without any   *)
(* clock: ownership passes from one epoch (fencing token) to the next, and *)
(* only the owner of the current epoch writes, never with an earlier       *)
(* timestamp than the writes already in the log.                           *)
(***************************************************************************)
EXTENDS Naturals, Sequences

CONSTANTS Owners,  \* who may be granted the log
          Times    \* the timestamps a write may carry

VARIABLES epoch,    \* the fencing token of the current grant, 0 before any
          holder,   \* who was granted it
          log       \* the writes: [token, owner, recordedAt]

flVars == <<epoch, holder, log>>

FLInit ==
  /\ epoch = 0
  /\ holder \notin Owners
  /\ log = <<>>

Grant(o) ==
  /\ epoch' = epoch + 1
  /\ holder' = o
  /\ UNCHANGED log

NotBefore(t) == \A i \in DOMAIN log : log[i].recordedAt <= t

Write(t) ==
  /\ holder \in Owners
  /\ NotBefore(t)
  /\ log' = Append(log, [token |-> epoch, owner |-> holder, recordedAt |-> t])
  /\ UNCHANGED <<epoch, holder>>

FLNext ==
  \/ \E o \in Owners : Grant(o)
  \/ \E t \in Times : Write(t)

FLSpec == FLInit /\ [][FLNext]_flVars
=============================================================================
