----------------------------- MODULE ActionGoal -----------------------------
(***************************************************************************)
(* What an action server promises its clients, whatever its locks and      *)
(* tasks do: a goal ends with one outcome; every result request about it   *)
(* is answered at most once, with that outcome, or with Expired when it is *)
(* no longer retained, or is closed unanswered; a cancel is only said to   *)
(* be signalled for a goal that started, and to be too late for one that   *)
(* ended.  ActionEngine implements this module.                            *)
(***************************************************************************)
CONSTANTS Goals, Polls, Cancels

VARIABLES
  goal,      \* "unknown", "live", "withdrawn" or the goal's outcome
  expired,   \* goals whose result is no longer retained
  about,     \* goal each request names ("none" until it is sent)
  answer,    \* what each result request was told
  verdict    \* what each cancel request was told

vars == <<goal, expired, about, answer, verdict>>

Outcomes == {"Completed", "Cancelled", "Abandoned"}

Init ==
  /\ goal = [g \in Goals |-> "unknown"]
  /\ expired = {}
  /\ about = [r \in Polls \cup Cancels |-> "none"]
  /\ answer = [p \in Polls |-> "none"]
  /\ verdict = [c \in Cancels |-> "none"]

Move(g, from, to) == goal[g] = from /\ goal' = [goal EXCEPT ![g] = to]

Start(g) == Move(g, "unknown", "live") /\ UNCHANGED <<expired, about, answer, verdict>>

(* Unanswered requests are closed. *)
Closed(polls) ==
  /\ \A p \in polls : answer[p] = "none"
  /\ answer' = [p \in Polls |-> IF p \in polls THEN "dropped" ELSE answer[p]]

(* A withdrawn goal may close what was asked about it. *)
Withdraw(g) ==
  /\ Move(g, "live", "withdrawn")
  /\ \E polls \in SUBSET {p \in Polls : about[p] = g} : Closed(polls)
  /\ UNCHANGED <<expired, about, verdict>>

Finish(g) ==
  /\ \E o \in Outcomes : Move(g, "live", o)
  /\ UNCHANGED <<expired, about, answer, verdict>>

Expire(g) ==
  /\ goal[g] \in Outcomes /\ g \notin expired
  /\ expired' = expired \cup {g}
  /\ UNCHANGED <<goal, about, answer, verdict>>

Ask(r) ==
  /\ about[r] = "none"
  /\ \E g \in Goals \cup {"malformed"} : about' = [about EXCEPT ![r] = g]
  /\ UNCHANGED <<goal, expired, answer, verdict>>

Answer(p) ==
  /\ answer[p] = "none" /\ about[p] # "none"
  /\ IF about[p] = "malformed"
     THEN answer' = [answer EXCEPT ![p] = "malformed"]
     ELSE \/ /\ goal[about[p]] \in Outcomes
             /\ answer' = [answer EXCEPT ![p] = goal[about[p]]]
          \/ /\ about[p] \in expired
             /\ answer' = [answer EXCEPT ![p] = "Expired"]
  /\ UNCHANGED <<goal, expired, about, verdict>>

Close(polls) == Closed(polls) /\ UNCHANGED <<goal, expired, about, verdict>>

Judge(c) ==
  /\ verdict[c] = "none" /\ about[c] # "none"
  /\ IF about[c] = "malformed"
     THEN verdict' = [verdict EXCEPT ![c] = "malformed"]
     ELSE \/ /\ goal[about[c]] # "unknown"
             /\ verdict' = [verdict EXCEPT ![c] = "Signalled"]
          \/ /\ goal[about[c]] \in Outcomes
             /\ verdict' = [verdict EXCEPT ![c] = "AlreadyTerminal"]
          \/ verdict' = [verdict EXCEPT ![c] = "Unknown"]
  /\ UNCHANGED <<goal, expired, about, answer>>

Next ==
  \/ \E g \in Goals : Start(g) \/ Withdraw(g) \/ Finish(g) \/ Expire(g)
  \/ \E r \in Polls \cup Cancels : Ask(r)
  \/ \E p \in Polls : Answer(p)
  \/ \E polls \in SUBSET Polls : Close(polls)
  \/ \E c \in Cancels : Judge(c)

Spec == Init /\ [][Next]_vars
=============================================================================
