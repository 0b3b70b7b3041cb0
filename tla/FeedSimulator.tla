---------------------------- MODULE FeedSimulator ----------------------------
(***************************************************************************)
(* FeedSimulator::run(): sends the datagrams of a session, loses some and  *)
(* holds some back.  A datagram that was held back is released after a     *)
(* later one was sent directly, or at the end.  The dice of loss_rate and  *)
(* reorder_rate are nondeterministic choices; pacing is left out.          *)
(***************************************************************************)
EXTENDS Integers, Sequences, FiniteSets, SequencesExt

CONSTANTS
  Count,            \* session.size(); the datagrams are numbered from 1
  Loss,             \* loss_rate > 0
  Reorder           \* reorder_rate > 0

ASSUME SimulatorAssumption == Count \in Nat /\ Loss \in BOOLEAN /\ Reorder \in BOOLEAN

VARIABLES
  spc,              \* where the simulator is
  at,               \* the datagram of this iteration (i + 1 in the code)
  delayed,          \* the datagrams held back, oldest first
  lost,             \* history: datagrams never sent
  held,             \* history: datagrams that were held back
  sent              \* history: the datagrams in the order they were sent

simVars == <<spc, at, delayed, lost, held, sent>>

SimInit ==
  /\ spc = "open"
  /\ at = 1
  /\ delayed = <<>>
  /\ lost = {} /\ held = {}
  /\ sent = <<>>

OpenSocket ==
  /\ spc = "open"
  /\ spc' = "send"
  /\ UNCHANGED <<at, delayed, lost, held, sent>>

\* socket() fails: the recovery server is stopped again.
SocketFails ==
  /\ spc = "open"
  /\ spc' = "stopped"
  /\ UNCHANGED <<at, delayed, lost, held, sent>>

Lose ==
  /\ spc = "send" /\ at <= Count
  /\ Loss
  /\ lost' = lost \cup {at}
  /\ at' = at + 1
  /\ UNCHANGED <<spc, delayed, held, sent>>

\* The last datagram is never held back.
HoldBack ==
  /\ spc = "send" /\ at <= Count
  /\ Reorder
  /\ at < Count
  /\ delayed' = Append(delayed, at)
  /\ held' = held \cup {at}
  /\ at' = at + 1
  /\ UNCHANGED <<spc, lost, sent>>

Send ==
  /\ spc = "send" /\ at <= Count
  /\ sent' = Append(sent, at)
  /\ spc' = "release"
  /\ UNCHANGED <<at, delayed, lost, held>>

\* Mutant of Due: one datagram later.
DueLate == delayed # <<>> /\ Head(delayed) + 3 <= at

\* The condition of the loop that releases datagrams.
Due == delayed # <<>> /\ Head(delayed) + 2 <= at

Release ==
  /\ spc = "release"
  /\ Due
  /\ sent' = Append(sent, Head(delayed))
  /\ delayed' = Tail(delayed)
  /\ UNCHANGED <<spc, at, lost, held>>

NextDatagram ==
  /\ spc = "release"
  /\ ~Due
  /\ at' = at + 1
  /\ spc' = "send"
  /\ UNCHANGED <<delayed, lost, held, sent>>

\* After the last datagram, what is still held back is sent.
FlushDelayed ==
  /\ spc = "send" /\ at > Count
  /\ delayed # <<>>
  /\ sent' = Append(sent, Head(delayed))
  /\ delayed' = Tail(delayed)
  /\ UNCHANGED <<spc, at, lost, held>>

\* Mutant of Close: the datagrams that were held back are forgotten.
CloseEarly ==
  /\ spc = "send" /\ at > Count
  /\ spc' = "sleep"
  /\ UNCHANGED <<at, delayed, lost, held, sent>>

\* The socket is closed; the simulator sleeps before it stops the recovery server.
Close ==
  /\ spc = "send" /\ at > Count
  /\ delayed = <<>>
  /\ spc' = "sleep"
  /\ UNCHANGED <<at, delayed, lost, held, sent>>

Stop ==
  /\ spc = "sleep"
  /\ spc' = "stopped"
  /\ UNCHANGED <<at, delayed, lost, held, sent>>

SimStep == OpenSocket \/ Lose \/ HoldBack \/ Send \/ Release \/ NextDatagram \/ FlushDelayed \/ Close

SimNext == SimStep \/ SocketFails \/ Stop \/ (spc = "stopped" /\ UNCHANGED simVars)

SimSpec == SimInit /\ [][SimNext]_simVars

-----------------------------------------------------------------------------
\* Every datagram that is not lost is sent exactly once.
SentOnce ==
  /\ \A j, k \in DOMAIN sent : j # k => sent[j] # sent[k]
  /\ ToSet(sent) \cap lost = {}
  /\ ToSet(sent) \cup ToSet(delayed) \cup lost = IF spc = "release" THEN 1 .. at ELSE 1 .. (at - 1)
  /\ spc = "sleep" => ToSet(sent) \cup lost = 1 .. Count

\* At most two datagrams with a larger number overtake one that was held back, and those
\* that were held back do not overtake one another.
OvertakenByTwo ==
  \A j \in DOMAIN sent :
    LET overtaking == {k \in 1 .. (j - 1) : sent[k] > sent[j]}
    IN  /\ Cardinality(overtaking) <= 2
        /\ \A k \in overtaking : sent[k] \notin held

\* The loop of run() reorders in short bursts and does nothing else, also when later
\* datagrams are lost or held back in a row.
SentInBursts == SentOnce /\ OvertakenByTwo
=============================================================================
