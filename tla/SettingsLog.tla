----------------------------- MODULE SettingsLog -----------------------------
(***************************************************************************)
(* What the way of a command promises to the operator, with no broker, no    *)
(* channel and no file in it.  Commands are numbered as they are issued.  In *)
(* one run of the bot they take effect in that order, each at most once,     *)
(* some not at all.  A setting is the number of the command that gave it     *)
(* (0: the default).  What is in force is a configuration that was in force  *)
(* before, with at most one setting changed: never a mixture of two, never a *)
(* setting nobody gave.  CommandPath implements this.                        *)
(***************************************************************************)
EXTENDS Integers

CONSTANTS Field, MaxCommands

VARIABLES
  issued,   \* commands so far
  last,     \* the last that took effect in this run of the bot
  conf,     \* the settings in force
  past      \* every configuration that was ever in force

lvars == <<issued, last, conf, past>>

LInit ==
  /\ issued = 0 /\ last = 0
  /\ conf = [f \in Field |-> 0]
  /\ past = {conf}

Issue ==
  /\ issued < MaxCommands
  /\ issued' = issued + 1
  /\ UNCHANGED <<last, conf, past>>

\* Command n changes one setting of the present or of a past configuration,
\* or none.
TakeEffect(n) ==
  /\ last < n /\ n <= issued
  /\ last' = n
  /\ conf' \in {conf} \cup {[p EXCEPT ![f] = n] : p \in past, f \in Field}
  /\ past' = past \cup {conf'}
  /\ UNCHANGED issued

\* A new run starts from what some past configuration left on disk; commands
\* may come again.
Restart ==
  /\ last' = 0
  /\ conf' \in past
  /\ UNCHANGED <<issued, past>>

LNext == Issue \/ Restart \/ \E n \in 1..MaxCommands : TakeEffect(n)
LSpec == LInit /\ [][LNext]_lvars

=============================================================================
