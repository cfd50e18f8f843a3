-------------------------------- MODULE Feed --------------------------------
(***************************************************************************)
(* What the event path promises, without bus, projection or patches: a log *)
(* of generations that only grows, at its end and by records it does not   *)
(* have yet, and browsers that show nothing but records of the log.        *)
(***************************************************************************)
EXTENDS Naturals, Sequences, SequencesExt

CONSTANT Viewers

VARIABLES log,   \* the generations, oldest first, each with its records in order
          view   \* browser -> the set of records it shows

Durable == UNION {Range(log[g]) : g \in 1..Len(log)}

FeedInit == log = << <<>> >> /\ view = [c \in Viewers |-> {}]

\* A record becomes durable.
Record(n) ==
  /\ n \notin Durable
  /\ log' = [log EXCEPT ![Len(log)] = Append(@, n)]
  /\ UNCHANGED view

\* A generation begins.
Rotate == log' = Append(log, <<>>) /\ UNCHANGED view

\* A browser moves to other records of the log.
Show(c, s) == s \subseteq Durable /\ view' = [view EXCEPT ![c] = s] /\ UNCHANGED log

FeedNext == (\E n \in Durable' : Record(n)) \/ Rotate \/ (\E c \in Viewers : Show(c, view'[c]))

FeedSpec == FeedInit /\ [][FeedNext]_<<log, view>>
=============================================================================
