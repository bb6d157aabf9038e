------------------------------ MODULE EventFeed ------------------------------
(***************************************************************************)
(* What the streams of one task may rely on: an append-only log that       *)
(* announces at most one end, and publishes of events that are in the log, *)
(* in any order, possibly more than once, possibly never.                  *)
(***************************************************************************)
EXTENDS Integers, Sequences

CONSTANTS EventTypes, TerminalTypes

ASSUME FeedAssumption == TerminalTypes \subseteq EventTypes

VARIABLES log,          \* the task's rows of task_events, by seq
          published     \* the seqs published so far on its channel

feedVars == <<log, published>>

Ends(s) == s \in DOMAIN log /\ log[s] \in TerminalTypes
Ended == \E s \in DOMAIN log : Ends(s)

FeedInit == log = <<>> /\ published = {}

LogEvent(type) ==
    /\ type \in TerminalTypes => ~Ended
    /\ log' = Append(log, type)
    /\ UNCHANGED published

PublishEvent(s) ==
    /\ s \in DOMAIN log
    /\ published' = published \cup {s}
    /\ UNCHANGED log

FeedNext ==
    \/ \E type \in EventTypes : LogEvent(type)
    \/ \E s \in DOMAIN log : PublishEvent(s)

FeedSpec == FeedInit /\ [][FeedNext]_feedVars
=============================================================================
