--------------------------- MODULE OutputsProofs ---------------------------
(***************************************************************************)
(* TLAPS proofs about Outputs.tla, for any outputs and any number of       *)
(* chunks, operations and failures.                                        *)
(***************************************************************************)
EXTENDS Outputs, ListLemmas

----------------------------------------------------------------------------
(***************************************************************************)
(* The player's operation: which steps are left.                           *)
(***************************************************************************)

\* The steps each operation may have left
Programs ==
  {{"enable", "waitAll", "force", "updated", "wait", "opened"},
   {"close", "wait", "reset", "kill", "join"},
   {"release", "wait", "reset"},
   {"update", "updated", "wait", "push"}, {"play"},
   {"peek"}, {"consumed", "tail", "shift"}, {"allow"},
   {"update", "updated", "wait", "interruptPause", "pause", "waitAll"},
   {"drain", "waitAll"},
   {"interruptCancel", "cancel", "waitAll", "clear", "allow"}}

Kinds == UNION Programs

\* Which steps come first
Rank(d) ==
  CASE d \in {"wait", "updated"} -> 0
    [] d = "update" -> 1
    [] d \in {"enable", "interruptPause", "pause", "interruptCancel", "cancel", "drain",
              "close", "release", "consumed"} -> 2
    [] d \in {"waitAll", "tail", "reset"} -> 3
    [] d \in {"shift", "clear", "force", "kill", "push", "play", "peek"} -> 4
    [] OTHER -> 5

AllSteps == [do : Kinds, ao : Outputs]

\* A list of different steps, ordered by rank
Sorted(t) ==
  /\ t \in Seq(AllSteps)
  /\ \A i, j \in DOMAIN t : i < j => t[i] # t[j] /\ Rank(t[i].do) <= Rank(t[j].do)

\* Its steps, and the one that is next
Steps(t) == {t[i] : i \in DOMAIN t}
First(t) == IF t = <<>> THEN {} ELSE {Head(t)}

\* A step that is not one of an output
One(d) == Step(d, Order[1])

\* What is left of one operation: S are the steps, F has the next one.
Program(S, F) ==
  /\ S \subseteq AllSteps /\ F \subseteq S
  /\ \E K \in Programs : \A s \in S : s.do \in K
  /\ \A s \in S : s.do \in {"waitAll", "opened", "push", "clear", "reset", "peek", "shift"}
        => s = One(s.do)
  /\ \A s \in S : s.do \in {"wait", "updated", "pause", "cancel"} => s \in F
  /\ \A a \in Outputs : Step("pause", a) \in S => Step("interruptPause", a) \notin S
  /\ \A a \in Outputs : Step("cancel", a) \in S => Step("interruptCancel", a) \notin S
  /\ \A s \in S : s.do \in {"enable", "interruptPause", "pause", "drain", "interruptCancel", "cancel"}
        => One("waitAll") \in S
  /\ \A s \in S : s.do \in {"interruptCancel", "cancel"} => One("clear") \in S
  /\ One("clear") \in S => \A a \in Outputs : Step("allow", a) \in S
  /\ \A s \in S : s.do \in {"consumed", "tail"} => One("shift") \in S
  /\ \A s \in S : s.do \in {"close", "release"} => One("reset") \in S

----------------------------------------------------------------------------
(***************************************************************************)
(* An output.  n is the length of the pipe, c the number of chunks pushed, *)
(* e whether the pipe exists, z whether the output's thread is asleep.     *)
(***************************************************************************)

Places == {"none", "loop", "filter", "device", "notify", "closing", "failed", "enabling",
           "disabling", "disabled", "opening", "pausing", "paused", "draining", "cancelling",
           "done"}
Pointers == {"null", "live", "freed"}
Filters == {"null", "open", "stale"}

Records ==
  [at : Places, then : {"", "disable", "finish", "endPause", "notify", "failed"},
   command : Commands, open : BOOLEAN, source : {"CLOSED", "OPEN", "FLUSHED"},
   enabled : BOOLEAN, really : BOOLEAN, allow : BOOLEAN, reopen : BOOLEAN, pause : BOOLEAN,
   interrupt : BOOLEAN, caught : BOOLEAN, inloop : BOOLEAN, woken : BOOLEAN,
   failed : BOOLEAN, killed : BOOLEAN, chunk : Nat, consumed : BOOLEAN, current : Nat,
   filter : Filters, pipe : Pointers, request : Pointers, last : Nat]

\* What the place of its thread says of an output
Local(a, o) ==
  /\ o.at = "none" => o.command = "NONE"
  /\ o.open => /\ o.at \notin {"none", "closing", "failed", "enabling", "disabling", "disabled", "done"}
               /\ o.really /\ (o.failed => o.filter = "null") /\ o.source # "CLOSED"
  /\ ~o.open /\ o.at # "closing" => o.source = "CLOSED"
  /\ o.source = "CLOSED" => o.chunk = 0 /\ o.current = 0 /\ o.last = 0
  /\ o.at \in {"filter", "device"} => o.open /\ o.current # 0 /\ o.source = "OPEN"
  /\ o.at = "enabling" => o.command = "ENABLE" /\ ~o.really
  /\ o.at \in {"disabling", "disabled"} => o.command \in {"DISABLE", "KILL"} /\ ~o.really
  /\ o.at = "opening" => o.command = "OPEN" /\ ~o.failed /\ ~o.reopen /\ ~o.interrupt /\ ~o.caught
  /\ o.at \in {"pausing", "cancelling"} => o.open /\ ~o.interrupt /\ ~o.caught
  /\ o.at = "pausing" => o.command = "PAUSE" \/ (o.command = "RELEASE" /\ a \in AlwaysOn)
  /\ o.at = "paused" => o.open
  /\ o.at = "draining" => o.command = "DRAIN" /\ o.open /\ o.source = "FLUSHED"
  /\ o.at = "cancelling" => o.command = "CANCEL"
  /\ o.at = "closing" /\ o.then = "disable" => o.command \in {"DISABLE", "KILL"}
  /\ o.command = "OPEN" => o.really
  /\ o.inloop => o.at \in {"filter", "device", "notify"} \/ (o.at = "closing" /\ o.then = "notify")

\* The command an output has not finished yet fits what the player is doing.
Expected(a, o, S, F) ==
  \/ o.command = "NONE"
  \/ o.command = "OPEN" /\ Step("updated", a) \in F
  \/ o.command = "CLOSE" /\ Step("wait", a) \in F
  \/ o.command = "RELEASE" /\ Step("wait", a) \in F /\ One("reset") \in S
  \/ /\ o.command \in {"ENABLE", "DISABLE"} /\ One("waitAll") \in S /\ Step("enable", a) \notin S
     /\ \A s \in S : s.do \in {"enable", "waitAll", "force", "opened"}
  \/ /\ o.command = "PAUSE" /\ One("waitAll") \in S
     /\ Step("pause", a) \notin S /\ Step("interruptPause", a) \notin S
     /\ \A s \in S : s.do \in {"interruptPause", "pause", "waitAll"}
  \/ /\ o.command = "DRAIN" /\ One("waitAll") \in S /\ Step("drain", a) \notin S
     /\ \A s \in S : s.do \in {"drain", "waitAll"}
  \/ /\ o.command = "CANCEL" /\ One("waitAll") \in S /\ One("clear") \in S
     /\ Step("cancel", a) \notin S /\ Step("interruptCancel", a) \notin S
  \/ /\ o.command = "KILL" /\ Step("kill", a) \notin S
     /\ \A s \in S : s.do \in {"kill", "join"}

\* An output that may not play will be allowed to, and one that is interrupted
\* has a command on its way.
Link(a, o, S, n) ==
  /\ ~o.allow => \/ Step("allow", a) \in S
                 \/ One("shift") \in S /\ n = 1 /\ Step("tail", a) \notin S
  /\ o.open /\ (o.interrupt \/ o.caught) =>
       \/ Step("pause", a) \in S \/ Step("cancel", a) \in S
       \/ o.command \in {"PAUSE", "CANCEL", "CLOSE", "RELEASE", "KILL"}

\* The output refers to no chunk, and what it played last will not be asked for.
Idle(o, n) == o.chunk = 0 /\ o.current = 0 /\ (o.last = 0 \/ n = 0)

\* The chunks of an output against those of the pipe, c - n + 1 to c
Data(a, o, S, n, c, e) ==
  /\ o.chunk <= c /\ o.current <= c
  /\ o.pipe = "live" => e
  /\ o.open /\ o.chunk # 0 =>
       /\ o.source = "OPEN" /\ o.pipe = "live" /\ o.chunk > c - n
       /\ \/ o.consumed /\ o.current = 0 /\ o.last = o.chunk
          \/ ~o.consumed /\ o.current = o.chunk /\ (o.last = 0 \/ o.last = o.chunk - 1)
  /\ o.open /\ o.chunk = 0 =>
       /\ o.current = 0
       /\ \/ o.last = 0 \/ o.last = c - n
          \/ (One("shift") \in S /\ n = 1 /\ Step("tail", a) \notin S /\ o.last = c /\ ~o.allow)
  /\ o.command = "DRAIN" => n = 0
  /\ o.at = "cancelling" => Idle(o, n)
  /\ o.at = "pausing" /\ o.command = "RELEASE" => Idle(o, n)
  /\ o.open /\ a \notin AlwaysOn => o.pipe = "live"

\* What an operation has reached for an output, before it resets, clears, fills
\* or shifts the pipe
Closing(a, o, S, n) ==
  /\ One("reset") \in S /\ Step("close", a) \notin S /\ Step("release", a) \notin S
  /\ o.command = "NONE"
  => ~o.open \/ (a \in AlwaysOn /\ Idle(o, n) /\ o.at = "paused")

Clearing(a, o, S, n) ==
  /\ One("clear") \in S /\ Step("cancel", a) \notin S /\ Step("interruptCancel", a) \notin S
  /\ o.open
  => ~o.allow /\ (o.command = "NONE" => Idle(o, n))

Shifting(a, o, S, n, c) ==
  One("shift") \in S /\ Step("consumed", a) \notin S /\ o.open =>
    \/ n > 1 /\ o.chunk > c - n + 1
    \/ n = 1 /\ Step("tail", a) \in S /\ o.chunk = c /\ o.consumed
    \/ n = 1 /\ Step("tail", a) \notin S /\ o.chunk = 0 /\ o.last = c /\ ~o.allow

Phase(a, o, S, n, c) ==
  Closing(a, o, S, n) /\ Clearing(a, o, S, n) /\ Shifting(a, o, S, n, c)

\* There is no chunk for the output.
Nothing(o, n, c) ==
  \/ o.pipe # "live"
  \/ o.chunk = 0 /\ n = 0
  \/ o.chunk # 0 /\ o.consumed /\ o.chunk = c

\* A thread that sleeps has nothing to do, or will be woken up.
Sleeper(a, o, S, n, c, z) ==
  z => /\ o.at \in {"loop", "failed"} /\ ~o.woken
       /\ o.at = "loop" => o.command = "NONE"
       /\ o.at = "loop" /\ CanPlay(o) =>
            (o.current = 0 /\ Nothing(o, n, c)) \/ Step("play", a) \in S

\* Everything about one output
Fine(a, o, S, F, n, c, e, z) ==
  /\ o \in Records /\ Local(a, o) /\ Expected(a, o, S, F) /\ Link(a, o, S, n)
  /\ Data(a, o, S, n, c, e) /\ Phase(a, o, S, n, c) /\ Sleeper(a, o, S, n, c, z)

Context(S, F, n, c, e) ==
  Program(S, F) /\ n \in Nat /\ c \in Nat /\ n <= c /\ e \in BOOLEAN

----------------------------------------------------------------------------
(***************************************************************************)
(* Lemmas about steps.                                                     *)
(***************************************************************************)

\* A step is what it does and the output it is about.
LEMMA StepFacts ==
  /\ \A d, a : Step(d, a).do = d /\ Step(d, a).ao = a
  /\ \A d, a, f, b : Step(d, a) = Step(f, b) => d = f /\ a = b
  /\ \A d : One(d).do = d
  BY DEF Step, One

\* Which steps occur together
LEMMA Apart ==
  ASSUME NEW S, NEW F, Program(S, F), NEW s \in S
  PROVE  /\ s.do = "reset" =>
              \A t \in S : t.do \in {"close", "release", "wait", "reset", "kill", "join"}
         /\ s.do = "clear" =>
              \A t \in S : t.do \in {"interruptCancel", "cancel", "waitAll", "clear", "allow"}
         /\ s.do = "push" => \A t \in S : t.do \in {"update", "updated", "wait", "push"}
         /\ s.do = "shift" => \A t \in S : t.do \in {"consumed", "tail", "shift"}
         /\ s.do = "updated" =>
              \A t \in S : t.do \notin {"reset", "clear", "shift", "play", "allow"}
<1>1. PICK K \in Programs : \A t \in S : t.do \in K
  BY DEF Program
<1>. QED
  BY <1>1 DEF Programs

\* The same command is expected as before, or none.
LEMMA SameCommand ==
  ASSUME NEW a, NEW o, NEW x, NEW S, NEW F, Expected(a, o, S, F),
         x.command = o.command \/ x.command = "NONE"
  PROVE  Expected(a, x, S, F)
  BY DEF Expected

\* An operation that waits for a command changes the pipe only afterwards.
LEMMA CommandsApart ==
  ASSUME NEW a, NEW o, NEW S, NEW F, NEW n, NEW c, NEW e, Context(S, F, n, c, e),
         Expected(a, o, S, F)
  PROVE  /\ One("reset") \in S => o.command \in {"NONE", "CLOSE", "RELEASE"}
         /\ One("clear") \in S => o.command \in {"NONE", "CANCEL"}
         /\ One("push") \in S => o.command \in {"NONE", "OPEN", "CLOSE"}
         /\ One("shift") \in S => o.command = "NONE"
<1>. USE StepFacts
<1>1. Program(S, F) /\ F \subseteq S
  BY DEF Context, Program
<1>2. One("reset") \in S => \A t \in S : t.do \in {"close", "release", "wait", "reset", "kill", "join"}
  BY <1>1, Apart
<1>3. One("clear") \in S => \A t \in S : t.do \in {"interruptCancel", "cancel", "waitAll", "clear", "allow"}
  BY <1>1, Apart
<1>4. One("push") \in S => \A t \in S : t.do \in {"update", "updated", "wait", "push"}
  BY <1>1, Apart
<1>5. One("shift") \in S => \A t \in S : t.do \in {"consumed", "tail", "shift"}
  BY <1>1, Apart
<1>6. ASSUME One("reset") \in S PROVE o.command \in {"NONE", "CLOSE", "RELEASE"}
  BY <1>1, <1>2, <1>6 DEF Expected
<1>7. ASSUME One("clear") \in S PROVE o.command \in {"NONE", "CANCEL"}
  BY <1>1, <1>3, <1>7 DEF Expected
<1>8. ASSUME One("push") \in S PROVE o.command \in {"NONE", "OPEN", "CLOSE"}
  BY <1>1, <1>4, <1>8 DEF Expected
<1>9. ASSUME One("shift") \in S PROVE o.command = "NONE"
  BY <1>1, <1>5, <1>9 DEF Expected
<1>. QED
  BY <1>6, <1>7, <1>8, <1>9

----------------------------------------------------------------------------
(***************************************************************************)
(* The steps of an output's thread.                                        *)
(***************************************************************************)

\* Values of the fields
LEMMA Values ==
  /\ {"loop", "filter", "device", "cancelling", "done"} \subseteq Places
  /\ "NONE" \in Commands /\ "live" \in Pointers
  /\ {"null", "open"} \subseteq Filters
  /\ \A p \in {"loop", "filter", "device", "cancelling", "done"} : p \in Places
  /\ \A p \in {"null", "open"} : p \in Filters
  BY DEF Places, Commands, Pointers, Filters

\* CommandFinished()
LEMMA FinishedFacts ==
  ASSUME NEW o \in Records
  PROVE  LET x == Finished(o) IN
         /\ x \in Records /\ x.at = "loop" /\ x.then = "" /\ x.command = "NONE" /\ x.open = o.open
         /\ x.source = o.source /\ x.chunk = o.chunk /\ x.current = o.current /\ x.last = o.last
         /\ x.allow = o.allow /\ x.pipe = o.pipe /\ x.inloop = o.inloop
<1>1. "loop" \in Places /\ "NONE" \in Commands
  BY DEF Places, Commands
<1>2. Finished(o) = [o EXCEPT !.command = "NONE", !.at = "loop", !.then = ""]
  BY DEF Finished
<1>3. Finished(o) \in Records
  BY <1>1, <1>2 DEF Records
<1>. QED
  BY <1>2, <1>3 DEF Records

\* InternalClose(): the output is not open any more.
LEMMA CloseFine ==
  ASSUME NEW a, NEW o, NEW S, NEW F, NEW n, NEW c, NEW e, Context(S, F, n, c, e),
         Fine(a, o, S, F, n, c, e, FALSE), o.at # "closing", NEW y \in Records,
         y.command = o.command, y.source = o.source, y.really = o.really, y.allow = o.allow,
         y.inloop = o.inloop, y.chunk = o.chunk, y.current \in {0, o.current}, y.last = o.last,
         y.pipe = o.pipe, NEW t \in {"disable", "finish", "endPause", "notify", "failed"},
         t = "disable" => o.command \in {"DISABLE", "KILL"}, o.inloop => t = "notify"
  PROVE  Fine(a, Close(y, t), S, F, n, c, e, FALSE)
<1>. DEFINE x == Close(y, t)
<1>1. x \in Records
  BY DEF Close, Records, Places
<1>2. /\ ~x.open /\ x.at = "closing" /\ x.then = t
      /\ x.command = o.command /\ x.source = o.source /\ x.really = o.really /\ x.allow = o.allow
      /\ x.inloop = o.inloop /\ x.chunk = o.chunk /\ x.current \in {0, o.current} /\ x.last = o.last
      /\ x.pipe = o.pipe
  BY DEF Close, Records
<1>. HIDE DEF x
<1>3. Local(a, x)
  BY <1>2 DEF Fine, Local
<1>4. Expected(a, x, S, F)
  BY <1>2, SameCommand DEF Fine
<1>5. Link(a, x, S, n)
  BY <1>2 DEF Fine, Link
<1>6. Data(a, x, S, n, c, e)
  BY <1>2 DEF Fine, Data, Context
<1>7. Phase(a, x, S, n, c)
  BY <1>2 DEF Phase, Closing, Clearing, Shifting
<1>. QED
  BY <1>1, <1>3, <1>4, <1>5, <1>6, <1>7 DEF Fine, Sleeper, x

\* An output that is closed: little is said of it.
LEMMA ShutFine ==
  ASSUME NEW a, NEW o, NEW S, NEW F, NEW n, NEW c, NEW e, Context(S, F, n, c, e),
         Fine(a, o, S, F, n, c, e, FALSE), NEW x \in Records,
         ~x.open, x.source = "CLOSED", x.chunk = 0, x.current = 0, x.last = 0,
         x.command \in {o.command, "NONE"}, x.allow = o.allow,
         x.pipe = o.pipe \/ (x.pipe = "live" /\ e), x.at \notin {"cancelling", "pausing"}, Local(a, x)
  PROVE  /\ Fine(a, x, S, F, n, c, e, FALSE)
         /\ x.at = "failed" /\ ~x.woken => Fine(a, x, S, F, n, c, e, TRUE)
<1>4. Expected(a, x, S, F)
  BY SameCommand DEF Fine
<1>5. Link(a, x, S, n)
  BY DEF Fine, Link
<1>6. Data(a, x, S, n, c, e)
  BY DEF Fine, Data, Context
<1>7. Phase(a, x, S, n, c)
  BY DEF Phase, Closing, Clearing, Shifting
<1>8. Sleeper(a, x, S, n, c, FALSE) /\ (x.at = "failed" /\ ~x.woken => Sleeper(a, x, S, n, c, TRUE))
  BY DEF Sleeper
<1>. QED
  BY <1>4, <1>5, <1>6, <1>7, <1>8 DEF Fine

\* InternalPlay() goes on with its chunk, or leaves because of a command.
LEMMA PlayFine ==
  ASSUME NEW a, NEW o, NEW S, NEW F, NEW n, NEW c, NEW e, Context(S, F, n, c, e),
         Fine(a, o, S, F, n, c, e, FALSE),
         o.at \in {"loop", "filter"}, o.open, o.source = "OPEN", o.current # 0
  PROVE  Fine(a, PlayOrLeave(o), S, F, n, c, e, FALSE)
<1>. DEFINE x == PlayOrLeave(o)
<1>0. o \in Records
  BY DEF Fine
<1>1. x \in Records
  <2>1. CASE o.command = "NONE"
    BY <1>0, <2>1, Values, Zenon DEF PlayOrLeave, Records
  <2>2. CASE o.command # "NONE"
    BY <1>0, <2>2, Values, Zenon DEF PlayOrLeave, Records
  <2>. QED
    BY <2>1, <2>2
<1>2. /\ x.at = (IF o.command = "NONE" THEN "device" ELSE "loop")
      /\ x.inloop = (o.command = "NONE") /\ x.then = o.then /\ x.command = o.command
      /\ x.open = o.open /\ x.source = o.source /\ x.enabled = o.enabled
      /\ x.really = o.really /\ x.allow = o.allow /\ x.reopen = o.reopen
      /\ x.pause = o.pause /\ x.interrupt = o.interrupt /\ x.caught = o.caught
      /\ x.woken = o.woken /\ x.failed = o.failed /\ x.filter = o.filter /\ x.killed = o.killed
      /\ x.chunk = o.chunk /\ x.consumed = o.consumed /\ x.current = o.current
      /\ x.pipe = o.pipe /\ x.request = o.request /\ x.last = o.last
  BY <1>0 DEF PlayOrLeave, Records
<1>. HIDE DEF x
<1>3. Local(a, x)
  BY <1>2 DEF Fine, Local
<1>4. Expected(a, x, S, F)
  BY <1>2, SameCommand DEF Fine
<1>5. Link(a, x, S, n)
  BY <1>2 DEF Fine, Local, Link
<1>n. o.chunk \in Nat /\ o.current \in Nat /\ o.last \in Nat
      /\ o.source \in {"CLOSED", "OPEN", "FLUSHED"}
  BY <1>0 DEF Records
<1>6. Data(a, x, S, n, c, e)
  BY <1>n, <1>2 DEF Fine, Local, Data, Idle, Context
<1>c. /\ One("reset") \in S => o.command \in {"NONE", "CLOSE", "RELEASE"}
      /\ One("clear") \in S => o.command \in {"NONE", "CANCEL"}
      /\ One("push") \in S => o.command \in {"NONE", "OPEN", "CLOSE"}
      /\ One("shift") \in S => o.command = "NONE"
  BY CommandsApart DEF Fine
<1>7. Closing(a, x, S, n)
  BY <1>n, <1>2, <1>c DEF Fine, Local, Phase, Closing, Data, Idle, Context
<1>8. Clearing(a, x, S, n)
  BY <1>n, <1>2, <1>c DEF Fine, Local, Phase, Clearing, Data, Idle, Context
<1>10. Shifting(a, x, S, n, c)
  BY <1>n, <1>2, <1>c DEF Fine, Local, Phase, Shifting, Data, Idle, Context
<1>11. Sleeper(a, x, S, n, c, FALSE)
  BY <1>2 DEF Sleeper, Nothing, CanPlay
<1>. QED
  BY <1>1, <1>3, <1>4, <1>5, <1>6, <1>7, <1>8, <1>10, <1>11 DEF Fine, Phase, x

\* Fill(): the next chunk of the pipe.
LEMMA FillFine ==
  ASSUME NEW a, NEW o, NEW S, NEW F, NEW n, NEW c, NEW e, Context(S, F, n, c, e),
         Fine(a, o, S, F, n, c, e, FALSE),
         o.at \in {"loop", "notify"}, o.open, o.source = "OPEN", o.current = 0, o.allow \/ o.chunk # 0,
         o.pipe = "live", NEW g \in Nat, g # 0, g > c - n, g <= c,
         o.chunk = 0 => g = c - n + 1, o.chunk # 0 => o.consumed /\ g = o.chunk + 1
  PROVE  Fine(a, [o EXCEPT !.chunk = g, !.consumed = FALSE, !.current = g, !.at = "filter"], S, F, n, c, e, FALSE)
<1>. DEFINE x == [o EXCEPT !.chunk = g, !.consumed = FALSE, !.current = g, !.at = "filter"]
<1>0. o \in Records
  BY DEF Fine
<1>1. x \in Records
  BY <1>0, Values, Zenon DEF Records
<1>2. /\ x.at = "filter" /\ x.chunk = g /\ x.current = g /\ x.consumed = FALSE
      /\ x.then = o.then /\ x.command = o.command /\ x.open = o.open /\ x.source = o.source
      /\ x.enabled = o.enabled /\ x.really = o.really /\ x.allow = o.allow
      /\ x.reopen = o.reopen /\ x.pause = o.pause /\ x.interrupt = o.interrupt
      /\ x.caught = o.caught /\ x.inloop = o.inloop /\ x.woken = o.woken
      /\ x.failed = o.failed /\ x.filter = o.filter /\ x.killed = o.killed /\ x.pipe = o.pipe
      /\ x.request = o.request /\ x.last = o.last
  BY <1>0 DEF Records
<1>. HIDE DEF x
<1>3. Local(a, x)
  BY <1>2 DEF Fine, Local
<1>4. Expected(a, x, S, F)
  BY <1>2, SameCommand DEF Fine
<1>5. Link(a, x, S, n)
  BY <1>2 DEF Fine, Local, Link
<1>n. o.chunk \in Nat /\ o.current \in Nat /\ o.last \in Nat
      /\ o.source \in {"CLOSED", "OPEN", "FLUSHED"}
  BY <1>0 DEF Records
<1>6. Data(a, x, S, n, c, e)
  BY <1>n, <1>2 DEF Fine, Local, Data, Idle, Context
<1>c. /\ One("reset") \in S => o.command \in {"NONE", "CLOSE", "RELEASE"}
      /\ One("clear") \in S => o.command \in {"NONE", "CANCEL"}
      /\ One("push") \in S => o.command \in {"NONE", "OPEN", "CLOSE"}
      /\ One("shift") \in S => o.command = "NONE"
  BY CommandsApart DEF Fine
<1>7. Closing(a, x, S, n)
  BY <1>n, <1>2, <1>c DEF Fine, Local, Phase, Closing, Data, Idle, Context
<1>8. Clearing(a, x, S, n)
  BY <1>n, <1>2, <1>c DEF Fine, Local, Phase, Clearing, Data, Idle, Context
<1>10. Shifting(a, x, S, n, c)
  BY <1>n, <1>2, <1>c DEF Fine, Local, Phase, Shifting, Data, Idle, Context
<1>11. Sleeper(a, x, S, n, c, FALSE)
  BY <1>2 DEF Sleeper, Nothing, CanPlay
<1>. QED
  BY <1>1, <1>3, <1>4, <1>5, <1>6, <1>7, <1>8, <1>10, <1>11 DEF Fine, Phase, x

\* Task() waits: there is nothing to play.
LEMMA SleepFine ==
  ASSUME NEW a, NEW o, NEW S, NEW F, NEW n, NEW c, NEW e, Context(S, F, n, c, e),
         Fine(a, o, S, F, n, c, e, FALSE),
         o.at = "loop", o.command = "NONE", CanPlay(o) => o.current = 0 /\ Nothing(o, n, c)
  PROVE  Fine(a, [o EXCEPT !.woken = FALSE], S, F, n, c, e, TRUE)
<1>. DEFINE x == [o EXCEPT !.woken = FALSE]
<1>0. o \in Records
  BY DEF Fine
<1>1. x \in Records
  BY <1>0 DEF Records, Places, Commands
<1>2. /\ x.woken = FALSE /\ x.at = o.at /\ x.then = o.then /\ x.command = o.command
      /\ x.open = o.open /\ x.source = o.source /\ x.enabled = o.enabled
      /\ x.really = o.really /\ x.allow = o.allow /\ x.reopen = o.reopen
      /\ x.pause = o.pause /\ x.interrupt = o.interrupt /\ x.caught = o.caught
      /\ x.inloop = o.inloop /\ x.failed = o.failed /\ x.filter = o.filter /\ x.killed = o.killed
      /\ x.chunk = o.chunk /\ x.consumed = o.consumed /\ x.current = o.current
      /\ x.pipe = o.pipe /\ x.request = o.request /\ x.last = o.last
  BY <1>0 DEF Records
<1>. HIDE DEF x
<1>3. Local(a, x)
  BY <1>2 DEF Fine, Local
<1>4. Expected(a, x, S, F)
  BY <1>2, SameCommand DEF Fine
<1>5. Link(a, x, S, n)
  BY <1>2 DEF Fine, Local, Link
<1>n. o.chunk \in Nat /\ o.current \in Nat /\ o.last \in Nat
      /\ o.source \in {"CLOSED", "OPEN", "FLUSHED"}
  BY <1>0 DEF Records
<1>6. Data(a, x, S, n, c, e)
  BY <1>n, <1>2 DEF Fine, Local, Data, Idle, Context
<1>c. /\ One("reset") \in S => o.command \in {"NONE", "CLOSE", "RELEASE"}
      /\ One("clear") \in S => o.command \in {"NONE", "CANCEL"}
      /\ One("push") \in S => o.command \in {"NONE", "OPEN", "CLOSE"}
      /\ One("shift") \in S => o.command = "NONE"
  BY CommandsApart DEF Fine
<1>7. Closing(a, x, S, n)
  BY <1>n, <1>2, <1>c DEF Fine, Local, Phase, Closing, Data, Idle, Context
<1>8. Clearing(a, x, S, n)
  BY <1>n, <1>2, <1>c DEF Fine, Local, Phase, Clearing, Data, Idle, Context
<1>10. Shifting(a, x, S, n, c)
  BY <1>n, <1>2, <1>c DEF Fine, Local, Phase, Shifting, Data, Idle, Context
<1>11. Sleeper(a, x, S, n, c, TRUE)
  BY <1>2 DEF Sleeper, Nothing, CanPlay
<1>. QED
  BY <1>1, <1>3, <1>4, <1>5, <1>6, <1>7, <1>8, <1>10, <1>11 DEF Fine, Phase, x

\* The device has played the rest of the chunk.
LEMMA ConsumeFine ==
  ASSUME NEW a, NEW o, NEW S, NEW F, NEW n, NEW c, NEW e, Context(S, F, n, c, e),
         Fine(a, o, S, F, n, c, e, FALSE),
         o.at = "device"
  PROVE  Fine(a, [Consume(o) EXCEPT !.at = "notify"], S, F, n, c, e, FALSE)
<1>. DEFINE x == [Consume(o) EXCEPT !.at = "notify"]
<1>0. o \in Records
  BY DEF Fine
<1>1. x \in Records
  BY <1>0 DEF Consume, Records, Places, Commands
<1>2. /\ x.at = "notify" /\ x.consumed = TRUE /\ x.current = 0 /\ x.last = o.current
      /\ x.then = o.then /\ x.command = o.command /\ x.open = o.open /\ x.source = o.source
      /\ x.enabled = o.enabled /\ x.really = o.really /\ x.allow = o.allow
      /\ x.reopen = o.reopen /\ x.pause = o.pause /\ x.interrupt = o.interrupt
      /\ x.caught = o.caught /\ x.inloop = o.inloop /\ x.woken = o.woken
      /\ x.failed = o.failed /\ x.filter = o.filter /\ x.killed = o.killed /\ x.chunk = o.chunk /\ x.pipe = o.pipe
      /\ x.request = o.request
  BY <1>0 DEF Consume, Records
<1>. HIDE DEF x
<1>3. Local(a, x)
  BY <1>2 DEF Fine, Local
<1>4. Expected(a, x, S, F)
  BY <1>2, SameCommand DEF Fine
<1>5. Link(a, x, S, n)
  BY <1>2 DEF Fine, Local, Link
<1>n. o.chunk \in Nat /\ o.current \in Nat /\ o.last \in Nat
      /\ o.source \in {"CLOSED", "OPEN", "FLUSHED"}
  BY <1>0 DEF Records
<1>6. Data(a, x, S, n, c, e)
  BY <1>n, <1>2 DEF Fine, Local, Data, Idle, Context
<1>c. /\ One("reset") \in S => o.command \in {"NONE", "CLOSE", "RELEASE"}
      /\ One("clear") \in S => o.command \in {"NONE", "CANCEL"}
      /\ One("push") \in S => o.command \in {"NONE", "OPEN", "CLOSE"}
      /\ One("shift") \in S => o.command = "NONE"
  BY CommandsApart DEF Fine
<1>7. Closing(a, x, S, n)
  BY <1>n, <1>2, <1>c DEF Fine, Local, Phase, Closing, Data, Idle, Context
<1>8. Clearing(a, x, S, n)
  BY <1>n, <1>2, <1>c DEF Fine, Local, Phase, Clearing, Data, Idle, Context
<1>10. Shifting(a, x, S, n, c)
  BY <1>n, <1>2, <1>c DEF Fine, Local, Phase, Shifting, Data, Idle, Context
<1>11. Sleeper(a, x, S, n, c, FALSE)
  BY <1>2 DEF Sleeper, Nothing, CanPlay
<1>. QED
  BY <1>1, <1>3, <1>4, <1>5, <1>6, <1>7, <1>8, <1>10, <1>11 DEF Fine, Phase, x

\* The device was interrupted.
LEMMA CaughtFine ==
  ASSUME NEW a, NEW o, NEW S, NEW F, NEW n, NEW c, NEW e, Context(S, F, n, c, e),
         Fine(a, o, S, F, n, c, e, FALSE),
         o.at = "device", o.interrupt
  PROVE  Fine(a, [o EXCEPT !.caught = TRUE, !.at = "notify"], S, F, n, c, e, FALSE)
<1>. DEFINE x == [o EXCEPT !.caught = TRUE, !.at = "notify"]
<1>0. o \in Records
  BY DEF Fine
<1>1. x \in Records
  BY <1>0 DEF Records, Places, Commands
<1>2. /\ x.at = "notify" /\ x.caught = TRUE /\ x.then = o.then /\ x.command = o.command
      /\ x.open = o.open /\ x.source = o.source /\ x.enabled = o.enabled
      /\ x.really = o.really /\ x.allow = o.allow /\ x.reopen = o.reopen
      /\ x.pause = o.pause /\ x.interrupt = o.interrupt /\ x.inloop = o.inloop
      /\ x.woken = o.woken /\ x.failed = o.failed /\ x.filter = o.filter /\ x.killed = o.killed
      /\ x.chunk = o.chunk /\ x.consumed = o.consumed /\ x.current = o.current
      /\ x.pipe = o.pipe /\ x.request = o.request /\ x.last = o.last
  BY <1>0 DEF Records
<1>. HIDE DEF x
<1>3. Local(a, x)
  BY <1>2 DEF Fine, Local
<1>4. Expected(a, x, S, F)
  BY <1>2, SameCommand DEF Fine
<1>5. Link(a, x, S, n)
  BY <1>2 DEF Fine, Local, Link
<1>n. o.chunk \in Nat /\ o.current \in Nat /\ o.last \in Nat
      /\ o.source \in {"CLOSED", "OPEN", "FLUSHED"}
  BY <1>0 DEF Records
<1>6. Data(a, x, S, n, c, e)
  BY <1>n, <1>2 DEF Fine, Local, Data, Idle, Context
<1>c. /\ One("reset") \in S => o.command \in {"NONE", "CLOSE", "RELEASE"}
      /\ One("clear") \in S => o.command \in {"NONE", "CANCEL"}
      /\ One("push") \in S => o.command \in {"NONE", "OPEN", "CLOSE"}
      /\ One("shift") \in S => o.command = "NONE"
  BY CommandsApart DEF Fine
<1>7. Closing(a, x, S, n)
  BY <1>n, <1>2, <1>c DEF Fine, Local, Phase, Closing, Data, Idle, Context
<1>8. Clearing(a, x, S, n)
  BY <1>n, <1>2, <1>c DEF Fine, Local, Phase, Clearing, Data, Idle, Context
<1>10. Shifting(a, x, S, n, c)
  BY <1>n, <1>2, <1>c DEF Fine, Local, Phase, Shifting, Data, Idle, Context
<1>11. Sleeper(a, x, S, n, c, FALSE)
  BY <1>2 DEF Sleeper, Nothing, CanPlay
<1>. QED
  BY <1>1, <1>3, <1>4, <1>5, <1>6, <1>7, <1>8, <1>10, <1>11 DEF Fine, Phase, x

\* ChunksConsumed() has returned.
LEMMA NotifiedFine ==
  ASSUME NEW a, NEW o, NEW S, NEW F, NEW n, NEW c, NEW e, Context(S, F, n, c, e),
         Fine(a, o, S, F, n, c, e, FALSE),
         o.at = "notify"
  PROVE  Fine(a, [o EXCEPT !.inloop = FALSE, !.at = "loop"], S, F, n, c, e, FALSE)
<1>. DEFINE x == [o EXCEPT !.inloop = FALSE, !.at = "loop"]
<1>0. o \in Records
  BY DEF Fine
<1>1. x \in Records
  BY <1>0 DEF Records, Places, Commands
<1>2. /\ x.at = "loop" /\ x.inloop = FALSE /\ x.then = o.then /\ x.command = o.command
      /\ x.open = o.open /\ x.source = o.source /\ x.enabled = o.enabled
      /\ x.really = o.really /\ x.allow = o.allow /\ x.reopen = o.reopen
      /\ x.pause = o.pause /\ x.interrupt = o.interrupt /\ x.caught = o.caught
      /\ x.woken = o.woken /\ x.failed = o.failed /\ x.filter = o.filter /\ x.killed = o.killed
      /\ x.chunk = o.chunk /\ x.consumed = o.consumed /\ x.current = o.current
      /\ x.pipe = o.pipe /\ x.request = o.request /\ x.last = o.last
  BY <1>0 DEF Records
<1>. HIDE DEF x
<1>3. Local(a, x)
  BY <1>2 DEF Fine, Local
<1>4. Expected(a, x, S, F)
  BY <1>2, SameCommand DEF Fine
<1>5. Link(a, x, S, n)
  BY <1>2 DEF Fine, Local, Link
<1>n. o.chunk \in Nat /\ o.current \in Nat /\ o.last \in Nat
      /\ o.source \in {"CLOSED", "OPEN", "FLUSHED"}
  BY <1>0 DEF Records
<1>6. Data(a, x, S, n, c, e)
  BY <1>n, <1>2 DEF Fine, Local, Data, Idle, Context
<1>c. /\ One("reset") \in S => o.command \in {"NONE", "CLOSE", "RELEASE"}
      /\ One("clear") \in S => o.command \in {"NONE", "CANCEL"}
      /\ One("push") \in S => o.command \in {"NONE", "OPEN", "CLOSE"}
      /\ One("shift") \in S => o.command = "NONE"
  BY CommandsApart DEF Fine
<1>7. Closing(a, x, S, n)
  BY <1>n, <1>2, <1>c DEF Fine, Local, Phase, Closing, Data, Idle, Context
<1>8. Clearing(a, x, S, n)
  BY <1>n, <1>2, <1>c DEF Fine, Local, Phase, Clearing, Data, Idle, Context
<1>10. Shifting(a, x, S, n, c)
  BY <1>n, <1>2, <1>c DEF Fine, Local, Phase, Shifting, Data, Idle, Context
<1>11. Sleeper(a, x, S, n, c, FALSE)
  BY <1>2 DEF Sleeper, Nothing, CanPlay
<1>. QED
  BY <1>1, <1>3, <1>4, <1>5, <1>6, <1>7, <1>8, <1>10, <1>11 DEF Fine, Phase, x

\* The plugin's Enable() is called.
LEMMA EnablingFine ==
  ASSUME NEW a, NEW o, NEW S, NEW F, NEW n, NEW c, NEW e, Context(S, F, n, c, e),
         Fine(a, o, S, F, n, c, e, FALSE),
         o.at = "loop", o.command = "ENABLE", ~o.really
  PROVE  Fine(a, [o EXCEPT !.at = "enabling"], S, F, n, c, e, FALSE)
<1>. DEFINE x == [o EXCEPT !.at = "enabling"]
<1>0. o \in Records
  BY DEF Fine
<1>1. x \in Records
  BY <1>0 DEF Records, Places, Commands
<1>2. /\ x.at = "enabling" /\ x.then = o.then /\ x.command = o.command /\ x.open = o.open
      /\ x.source = o.source /\ x.enabled = o.enabled /\ x.really = o.really
      /\ x.allow = o.allow /\ x.reopen = o.reopen /\ x.pause = o.pause
      /\ x.interrupt = o.interrupt /\ x.caught = o.caught /\ x.inloop = o.inloop
      /\ x.woken = o.woken /\ x.failed = o.failed /\ x.filter = o.filter /\ x.killed = o.killed
      /\ x.chunk = o.chunk /\ x.consumed = o.consumed /\ x.current = o.current
      /\ x.pipe = o.pipe /\ x.request = o.request /\ x.last = o.last
  BY <1>0 DEF Records
<1>. HIDE DEF x
<1>3. Local(a, x)
  BY <1>2 DEF Fine, Local
<1>4. Expected(a, x, S, F)
  BY <1>2, SameCommand DEF Fine
<1>5. Link(a, x, S, n)
  BY <1>2 DEF Fine, Local, Link
<1>n. o.chunk \in Nat /\ o.current \in Nat /\ o.last \in Nat
      /\ o.source \in {"CLOSED", "OPEN", "FLUSHED"}
  BY <1>0 DEF Records
<1>6. Data(a, x, S, n, c, e)
  BY <1>n, <1>2 DEF Fine, Local, Data, Idle, Context
<1>c. /\ One("reset") \in S => o.command \in {"NONE", "CLOSE", "RELEASE"}
      /\ One("clear") \in S => o.command \in {"NONE", "CANCEL"}
      /\ One("push") \in S => o.command \in {"NONE", "OPEN", "CLOSE"}
      /\ One("shift") \in S => o.command = "NONE"
  BY CommandsApart DEF Fine
<1>7. Closing(a, x, S, n)
  BY <1>n, <1>2, <1>c DEF Fine, Local, Phase, Closing, Data, Idle, Context
<1>8. Clearing(a, x, S, n)
  BY <1>n, <1>2, <1>c DEF Fine, Local, Phase, Clearing, Data, Idle, Context
<1>10. Shifting(a, x, S, n, c)
  BY <1>n, <1>2, <1>c DEF Fine, Local, Phase, Shifting, Data, Idle, Context
<1>11. Sleeper(a, x, S, n, c, FALSE)
  BY <1>2 DEF Sleeper, Nothing, CanPlay
<1>. QED
  BY <1>1, <1>3, <1>4, <1>5, <1>6, <1>7, <1>8, <1>10, <1>11 DEF Fine, Phase, x

\* Task() begins with OPEN.
LEMMA OpeningFine ==
  ASSUME NEW a, NEW o, NEW S, NEW F, NEW n, NEW c, NEW e, Context(S, F, n, c, e),
         Fine(a, o, S, F, n, c, e, FALSE),
         o.at = "loop", o.command = "OPEN"
  PROVE  Fine(a, [o EXCEPT !.reopen = FALSE, !.failed = FALSE, !.caught = FALSE,
                                    !.interrupt = FALSE, !.at = "opening"], S, F, n, c, e, FALSE)
<1>. DEFINE x == [o EXCEPT !.reopen = FALSE, !.failed = FALSE, !.caught = FALSE,
                                    !.interrupt = FALSE, !.at = "opening"]
<1>0. o \in Records
  BY DEF Fine
<1>1. x \in Records
  BY <1>0 DEF Records, Places, Commands
<1>2. /\ x.at = "opening" /\ x.reopen = FALSE /\ x.failed = FALSE /\ x.caught = FALSE
      /\ x.interrupt = FALSE /\ x.then = o.then /\ x.command = o.command /\ x.open = o.open
      /\ x.source = o.source /\ x.enabled = o.enabled /\ x.really = o.really
      /\ x.allow = o.allow /\ x.pause = o.pause /\ x.inloop = o.inloop /\ x.woken = o.woken
      /\ x.killed = o.killed /\ x.chunk = o.chunk /\ x.consumed = o.consumed
      /\ x.current = o.current /\ x.filter = o.filter /\ x.pipe = o.pipe /\ x.request = o.request
      /\ x.last = o.last
  BY <1>0 DEF Records
<1>. HIDE DEF x
<1>3. Local(a, x)
  BY <1>2 DEF Fine, Local
<1>4. Expected(a, x, S, F)
  BY <1>2, SameCommand DEF Fine
<1>5. Link(a, x, S, n)
  BY <1>2 DEF Fine, Local, Link
<1>n. o.chunk \in Nat /\ o.current \in Nat /\ o.last \in Nat
      /\ o.source \in {"CLOSED", "OPEN", "FLUSHED"}
  BY <1>0 DEF Records
<1>6. Data(a, x, S, n, c, e)
  BY <1>n, <1>2 DEF Fine, Local, Data, Idle, Context
<1>c. /\ One("reset") \in S => o.command \in {"NONE", "CLOSE", "RELEASE"}
      /\ One("clear") \in S => o.command \in {"NONE", "CANCEL"}
      /\ One("push") \in S => o.command \in {"NONE", "OPEN", "CLOSE"}
      /\ One("shift") \in S => o.command = "NONE"
  BY CommandsApart DEF Fine
<1>7. Closing(a, x, S, n)
  BY <1>n, <1>2, <1>c DEF Fine, Local, Phase, Closing, Data, Idle, Context
<1>8. Clearing(a, x, S, n)
  BY <1>n, <1>2, <1>c DEF Fine, Local, Phase, Clearing, Data, Idle, Context
<1>10. Shifting(a, x, S, n, c)
  BY <1>n, <1>2, <1>c DEF Fine, Local, Phase, Shifting, Data, Idle, Context
<1>11. Sleeper(a, x, S, n, c, FALSE)
  BY <1>2 DEF Sleeper, Nothing, CanPlay
<1>. QED
  BY <1>1, <1>3, <1>4, <1>5, <1>6, <1>7, <1>8, <1>10, <1>11 DEF Fine, Phase, x

\* Task() begins with PAUSE.
LEMMA PausingFine ==
  ASSUME NEW a, NEW o, NEW S, NEW F, NEW n, NEW c, NEW e, Context(S, F, n, c, e),
         Fine(a, o, S, F, n, c, e, FALSE),
         o.at = "loop", o.open, o.command = "PAUSE"
  PROVE  Fine(a, [o EXCEPT !.caught = FALSE, !.interrupt = FALSE, !.at = "pausing"], S, F, n, c, e, FALSE)
<1>. DEFINE x == [o EXCEPT !.caught = FALSE, !.interrupt = FALSE, !.at = "pausing"]
<1>0. o \in Records
  BY DEF Fine
<1>1. x \in Records
  BY <1>0 DEF Records, Places, Commands
<1>2. /\ x.at = "pausing" /\ x.caught = FALSE /\ x.interrupt = FALSE /\ x.then = o.then
      /\ x.command = o.command /\ x.open = o.open /\ x.source = o.source
      /\ x.enabled = o.enabled /\ x.really = o.really /\ x.allow = o.allow
      /\ x.reopen = o.reopen /\ x.pause = o.pause /\ x.inloop = o.inloop
      /\ x.woken = o.woken /\ x.failed = o.failed /\ x.filter = o.filter /\ x.killed = o.killed
      /\ x.chunk = o.chunk /\ x.consumed = o.consumed /\ x.current = o.current
      /\ x.pipe = o.pipe /\ x.request = o.request /\ x.last = o.last
  BY <1>0 DEF Records
<1>. HIDE DEF x
<1>3. Local(a, x)
  BY <1>2 DEF Fine, Local
<1>4. Expected(a, x, S, F)
  BY <1>2, SameCommand DEF Fine
<1>5. Link(a, x, S, n)
  BY <1>2 DEF Fine, Local, Link
<1>n. o.chunk \in Nat /\ o.current \in Nat /\ o.last \in Nat
      /\ o.source \in {"CLOSED", "OPEN", "FLUSHED"}
  BY <1>0 DEF Records
<1>6. Data(a, x, S, n, c, e)
  BY <1>n, <1>2 DEF Fine, Local, Data, Idle, Context
<1>c. /\ One("reset") \in S => o.command \in {"NONE", "CLOSE", "RELEASE"}
      /\ One("clear") \in S => o.command \in {"NONE", "CANCEL"}
      /\ One("push") \in S => o.command \in {"NONE", "OPEN", "CLOSE"}
      /\ One("shift") \in S => o.command = "NONE"
  BY CommandsApart DEF Fine
<1>7. Closing(a, x, S, n)
  BY <1>n, <1>2, <1>c DEF Fine, Local, Phase, Closing, Data, Idle, Context
<1>8. Clearing(a, x, S, n)
  BY <1>n, <1>2, <1>c DEF Fine, Local, Phase, Clearing, Data, Idle, Context
<1>10. Shifting(a, x, S, n, c)
  BY <1>n, <1>2, <1>c DEF Fine, Local, Phase, Shifting, Data, Idle, Context
<1>11. Sleeper(a, x, S, n, c, FALSE)
  BY <1>2 DEF Sleeper, Nothing, CanPlay
<1>. QED
  BY <1>1, <1>3, <1>4, <1>5, <1>6, <1>7, <1>8, <1>10, <1>11 DEF Fine, Phase, x

\* RELEASE cancels the source.
LEMMA ReleasingFine ==
  ASSUME NEW a, NEW o, NEW S, NEW F, NEW n, NEW c, NEW e, Context(S, F, n, c, e),
         Fine(a, o, S, F, n, c, e, FALSE),
         o.at = "loop", o.open, o.command = "RELEASE", a \in AlwaysOn
  PROVE  Fine(a, SourceCancel([o EXCEPT !.caught = FALSE, !.interrupt = FALSE, !.at = "pausing"]), S, F, n, c, e, FALSE)
<1>. DEFINE x == SourceCancel([o EXCEPT !.caught = FALSE, !.interrupt = FALSE, !.at = "pausing"])
<1>0. o \in Records
  BY DEF Fine
<1>1. x \in Records
  BY <1>0 DEF SourceCancel, Records, Places, Commands
<1>2. /\ x.at = "pausing" /\ x.caught = FALSE /\ x.interrupt = FALSE /\ x.chunk = 0
      /\ x.current = 0 /\ x.last = 0 /\ x.then = o.then /\ x.command = o.command
      /\ x.open = o.open /\ x.source = o.source /\ x.enabled = o.enabled
      /\ x.really = o.really /\ x.allow = o.allow /\ x.reopen = o.reopen
      /\ x.pause = o.pause /\ x.inloop = o.inloop /\ x.woken = o.woken
      /\ x.failed = o.failed /\ x.filter = o.filter /\ x.killed = o.killed /\ x.consumed = o.consumed
      /\ x.pipe = o.pipe /\ x.request = o.request
  BY <1>0 DEF SourceCancel, Records
<1>. HIDE DEF x
<1>3. Local(a, x)
  BY <1>2 DEF Fine, Local
<1>4. Expected(a, x, S, F)
  BY <1>2, SameCommand DEF Fine
<1>5. Link(a, x, S, n)
  BY <1>2 DEF Fine, Local, Link
<1>n. o.chunk \in Nat /\ o.current \in Nat /\ o.last \in Nat
      /\ o.source \in {"CLOSED", "OPEN", "FLUSHED"}
  BY <1>0 DEF Records
<1>6. Data(a, x, S, n, c, e)
  BY <1>n, <1>2 DEF Fine, Local, Data, Idle, Context
<1>c. /\ One("reset") \in S => o.command \in {"NONE", "CLOSE", "RELEASE"}
      /\ One("clear") \in S => o.command \in {"NONE", "CANCEL"}
      /\ One("push") \in S => o.command \in {"NONE", "OPEN", "CLOSE"}
      /\ One("shift") \in S => o.command = "NONE"
  BY CommandsApart DEF Fine
<1>7. Closing(a, x, S, n)
  BY <1>n, <1>2, <1>c DEF Fine, Local, Phase, Closing, Data, Idle, Context
<1>8. Clearing(a, x, S, n)
  BY <1>n, <1>2, <1>c DEF Fine, Local, Phase, Clearing, Data, Idle, Context
<1>10. Shifting(a, x, S, n, c)
  BY <1>n, <1>2, <1>c DEF Fine, Local, Phase, Shifting, Data, Idle, Context
<1>11. Sleeper(a, x, S, n, c, FALSE)
  BY <1>2 DEF Sleeper, Nothing, CanPlay
<1>. QED
  BY <1>1, <1>3, <1>4, <1>5, <1>6, <1>7, <1>8, <1>10, <1>11 DEF Fine, Phase, x

\* Task() begins with DRAIN: everything was played.
LEMMA DrainingFine ==
  ASSUME NEW a, NEW o, NEW S, NEW F, NEW n, NEW c, NEW e, Context(S, F, n, c, e),
         Fine(a, o, S, F, n, c, e, FALSE),
         o.at = "loop", o.open, o.command = "DRAIN"
  PROVE  Fine(a, [o EXCEPT !.source = "FLUSHED", !.reopen = TRUE, !.at = "draining",
                           !.filter = IF @ = "open" THEN "stale" ELSE @], S, F, n, c, e, FALSE)
<1>. DEFINE f == IF o.filter = "open" THEN "stale" ELSE o.filter
            x == [o EXCEPT !.source = "FLUSHED", !.reopen = TRUE, !.at = "draining", !.filter = f]
<1>0. o \in Records
  BY DEF Fine
<1>f. f \in Filters /\ (o.filter = "null" => f = "null")
  BY <1>0 DEF Records, Filters
<1>. HIDE DEF f
<1>1. x \in Records
  BY <1>0, <1>f DEF Records, Places, Commands
<1>2. /\ x.at = "draining" /\ x.source = "FLUSHED" /\ x.reopen = TRUE /\ x.then = o.then
      /\ x.command = o.command /\ x.open = o.open /\ x.enabled = o.enabled
      /\ x.really = o.really /\ x.allow = o.allow /\ x.pause = o.pause
      /\ x.interrupt = o.interrupt /\ x.caught = o.caught /\ x.inloop = o.inloop
      /\ x.woken = o.woken /\ x.failed = o.failed /\ x.filter = f /\ x.killed = o.killed
      /\ x.chunk = o.chunk /\ x.consumed = o.consumed /\ x.current = o.current
      /\ x.pipe = o.pipe /\ x.request = o.request /\ x.last = o.last
  BY <1>0 DEF Records
<1>. HIDE DEF x
<1>3. Local(a, x)
  BY <1>f, <1>2 DEF Fine, Local
<1>4. Expected(a, x, S, F)
  BY <1>2, SameCommand DEF Fine
<1>5. Link(a, x, S, n)
  BY <1>2 DEF Fine, Local, Link
<1>n. o.chunk \in Nat /\ o.current \in Nat /\ o.last \in Nat
      /\ o.source \in {"CLOSED", "OPEN", "FLUSHED"}
  BY <1>0 DEF Records
<1>6. Data(a, x, S, n, c, e)
  BY <1>n, <1>2 DEF Fine, Local, Data, Idle, Context
<1>c. /\ One("reset") \in S => o.command \in {"NONE", "CLOSE", "RELEASE"}
      /\ One("clear") \in S => o.command \in {"NONE", "CANCEL"}
      /\ One("push") \in S => o.command \in {"NONE", "OPEN", "CLOSE"}
      /\ One("shift") \in S => o.command = "NONE"
  BY CommandsApart DEF Fine
<1>7. Closing(a, x, S, n)
  BY <1>n, <1>2, <1>c DEF Fine, Local, Phase, Closing, Data, Idle, Context
<1>8. Clearing(a, x, S, n)
  BY <1>n, <1>2, <1>c DEF Fine, Local, Phase, Clearing, Data, Idle, Context
<1>10. Shifting(a, x, S, n, c)
  BY <1>n, <1>2, <1>c DEF Fine, Local, Phase, Shifting, Data, Idle, Context
<1>11. Sleeper(a, x, S, n, c, FALSE)
  BY <1>2 DEF Sleeper, Nothing, CanPlay
<1>. QED
  BY <1>1, <1>3, <1>4, <1>5, <1>6, <1>7, <1>8, <1>10, <1>11 DEF Fine, Phase, x, f

\* A source without a chunk has only its last one to forget.
LEMMA FlushedCancel ==
  ASSUME NEW o \in Records, o.chunk = 0, o.current = 0
  PROVE  [o EXCEPT !.last = 0] = SourceCancel(o)
  BY DEF SourceCancel, Records

\* Task() begins with CANCEL: the source forgets its chunk.
LEMMA CancelledFine ==
  ASSUME NEW a, NEW o, NEW S, NEW F, NEW n, NEW c, NEW e, Context(S, F, n, c, e),
         Fine(a, o, S, F, n, c, e, FALSE),
         o.at = "loop", o.open, o.command = "CANCEL"
  PROVE  Fine(a, SourceCancel([o EXCEPT !.caught = FALSE, !.interrupt = FALSE, !.at = "cancelling"]), S, F, n, c, e, FALSE)
<1>. DEFINE x == SourceCancel([o EXCEPT !.caught = FALSE, !.interrupt = FALSE, !.at = "cancelling"])
<1>0. o \in Records
  BY DEF Fine
<1>1. x \in Records
  BY <1>0 DEF SourceCancel, Records, Places, Commands
<1>2. /\ x.at = "cancelling" /\ x.caught = FALSE /\ x.interrupt = FALSE /\ x.chunk = 0
      /\ x.current = 0 /\ x.last = 0 /\ x.then = o.then /\ x.command = o.command
      /\ x.open = o.open /\ x.source = o.source /\ x.enabled = o.enabled
      /\ x.really = o.really /\ x.allow = o.allow /\ x.reopen = o.reopen
      /\ x.pause = o.pause /\ x.inloop = o.inloop /\ x.woken = o.woken
      /\ x.failed = o.failed /\ x.filter = o.filter /\ x.killed = o.killed /\ x.consumed = o.consumed
      /\ x.pipe = o.pipe /\ x.request = o.request
  BY <1>0 DEF SourceCancel, Records
<1>. HIDE DEF x
<1>3. Local(a, x)
  BY <1>2 DEF Fine, Local
<1>4. Expected(a, x, S, F)
  BY <1>2, SameCommand DEF Fine
<1>5. Link(a, x, S, n)
  BY <1>2 DEF Fine, Local, Link
<1>n. o.chunk \in Nat /\ o.current \in Nat /\ o.last \in Nat
      /\ o.source \in {"CLOSED", "OPEN", "FLUSHED"}
  BY <1>0 DEF Records
<1>6. Data(a, x, S, n, c, e)
  BY <1>n, <1>2 DEF Fine, Local, Data, Idle, Context
<1>c. /\ One("reset") \in S => o.command \in {"NONE", "CLOSE", "RELEASE"}
      /\ One("clear") \in S => o.command \in {"NONE", "CANCEL"}
      /\ One("push") \in S => o.command \in {"NONE", "OPEN", "CLOSE"}
      /\ One("shift") \in S => o.command = "NONE"
  BY CommandsApart DEF Fine
<1>7. Closing(a, x, S, n)
  BY <1>n, <1>2, <1>c DEF Fine, Local, Phase, Closing, Data, Idle, Context
<1>8. Clearing(a, x, S, n)
  BY <1>n, <1>2, <1>c DEF Fine, Local, Phase, Clearing, Data, Idle, Context
<1>10. Shifting(a, x, S, n, c)
  BY <1>n, <1>2, <1>c DEF Fine, Local, Phase, Shifting, Data, Idle, Context
<1>11. Sleeper(a, x, S, n, c, FALSE)
  BY <1>2 DEF Sleeper, Nothing, CanPlay
<1>. QED
  BY <1>1, <1>3, <1>4, <1>5, <1>6, <1>7, <1>8, <1>10, <1>11 DEF Fine, Phase, x

\* CommandFinished(), where nothing is left to do.
LEMMA FinishFine ==
  ASSUME NEW a, NEW o, NEW S, NEW F, NEW n, NEW c, NEW e, Context(S, F, n, c, e),
         Fine(a, o, S, F, n, c, e, FALSE),
         \/ o.at = "loop" /\ o.command = "ENABLE" /\ o.really
         \/ o.at \in {"draining", "cancelling"}
  PROVE  Fine(a, Finished(o), S, F, n, c, e, FALSE)
<1>. DEFINE x == Finished(o)
<1>0. o \in Records
  BY DEF Fine
<1>1. x \in Records
  BY <1>0, FinishedFacts
<1>2. /\ x.at = "loop" /\ x.command = "NONE" /\ x.then = "" /\ x.open = o.open
      /\ x.source = o.source /\ x.enabled = o.enabled /\ x.really = o.really
      /\ x.allow = o.allow /\ x.reopen = o.reopen /\ x.pause = o.pause
      /\ x.interrupt = o.interrupt /\ x.caught = o.caught /\ x.inloop = o.inloop
      /\ x.woken = o.woken /\ x.failed = o.failed /\ x.filter = o.filter /\ x.killed = o.killed
      /\ x.chunk = o.chunk /\ x.consumed = o.consumed /\ x.current = o.current
      /\ x.pipe = o.pipe /\ x.request = o.request /\ x.last = o.last
  BY <1>0 DEF Finished, Records
<1>. HIDE DEF x
<1>3. Local(a, x)
  BY <1>2 DEF Fine, Local
<1>4. Expected(a, x, S, F)
  BY <1>2, SameCommand DEF Fine
<1>5. Link(a, x, S, n)
  BY <1>2 DEF Fine, Local, Link
<1>n. o.chunk \in Nat /\ o.current \in Nat /\ o.last \in Nat
      /\ o.source \in {"CLOSED", "OPEN", "FLUSHED"}
  BY <1>0 DEF Records
<1>6. Data(a, x, S, n, c, e)
  BY <1>n, <1>2, ZenonT(60) DEF Fine, Local, Data, Idle, Context
<1>c. /\ One("reset") \in S => o.command \in {"NONE", "CLOSE", "RELEASE"}
      /\ One("clear") \in S => o.command \in {"NONE", "CANCEL"}
      /\ One("push") \in S => o.command \in {"NONE", "OPEN", "CLOSE"}
      /\ One("shift") \in S => o.command = "NONE"
  BY CommandsApart DEF Fine
<1>7. Closing(a, x, S, n)
  BY <1>n, <1>2, <1>c DEF Fine, Local, Phase, Closing, Data, Idle, Context
<1>8. Clearing(a, x, S, n)
  BY <1>n, <1>2, <1>c DEF Fine, Local, Phase, Clearing, Data, Idle, Context
<1>10. Shifting(a, x, S, n, c)
  BY <1>n, <1>2, <1>c DEF Fine, Local, Phase, Shifting, Data, Idle, Context
<1>11. Sleeper(a, x, S, n, c, FALSE)
  BY <1>2 DEF Sleeper, Nothing, CanPlay
<1>. QED
  BY <1>1, <1>3, <1>4, <1>5, <1>6, <1>7, <1>8, <1>10, <1>11 DEF Fine, Phase, x

\* The device pauses, and the command is finished.
LEMMA BeginPauseFine ==
  ASSUME NEW a, NEW o, NEW S, NEW F, NEW n, NEW c, NEW e, Context(S, F, n, c, e),
         Fine(a, o, S, F, n, c, e, FALSE),
         o.at = "pausing"
  PROVE  Fine(a, [o EXCEPT !.pause = TRUE, !.command = "NONE", !.at = "paused"], S, F, n, c, e, FALSE)
<1>. DEFINE x == [o EXCEPT !.pause = TRUE, !.command = "NONE", !.at = "paused"]
<1>0. o \in Records
  BY DEF Fine
<1>1. x \in Records
  BY <1>0 DEF Records, Places, Commands
<1>2. /\ x.at = "paused" /\ x.pause = TRUE /\ x.command = "NONE" /\ x.then = o.then
      /\ x.open = o.open /\ x.source = o.source /\ x.enabled = o.enabled
      /\ x.really = o.really /\ x.allow = o.allow /\ x.reopen = o.reopen
      /\ x.interrupt = o.interrupt /\ x.caught = o.caught /\ x.inloop = o.inloop
      /\ x.woken = o.woken /\ x.failed = o.failed /\ x.filter = o.filter /\ x.killed = o.killed
      /\ x.chunk = o.chunk /\ x.consumed = o.consumed /\ x.current = o.current
      /\ x.pipe = o.pipe /\ x.request = o.request /\ x.last = o.last
  BY <1>0 DEF Records
<1>. HIDE DEF x
<1>3. Local(a, x)
  BY <1>2 DEF Fine, Local
<1>4. Expected(a, x, S, F)
  BY <1>2, SameCommand DEF Fine
<1>5. Link(a, x, S, n)
  BY <1>2 DEF Fine, Local, Link
<1>n. o.chunk \in Nat /\ o.current \in Nat /\ o.last \in Nat
      /\ o.source \in {"CLOSED", "OPEN", "FLUSHED"}
  BY <1>0 DEF Records
<1>6. Data(a, x, S, n, c, e)
  BY <1>n, <1>2 DEF Fine, Local, Data, Idle, Context
<1>c. /\ One("reset") \in S => o.command \in {"NONE", "CLOSE", "RELEASE"}
      /\ One("clear") \in S => o.command \in {"NONE", "CANCEL"}
      /\ One("push") \in S => o.command \in {"NONE", "OPEN", "CLOSE"}
      /\ One("shift") \in S => o.command = "NONE"
  BY CommandsApart DEF Fine
<1>7. Closing(a, x, S, n)
  BY <1>n, <1>2, <1>c DEF Fine, Local, Phase, Closing, Data, Idle, Context
<1>8. Clearing(a, x, S, n)
  BY <1>n, <1>2, <1>c DEF Fine, Local, Phase, Clearing, Data, Idle, Context
<1>10. Shifting(a, x, S, n, c)
  BY <1>n, <1>2, <1>c DEF Fine, Local, Phase, Shifting, Data, Idle, Context
<1>11. Sleeper(a, x, S, n, c, FALSE)
  BY <1>2 DEF Sleeper, Nothing, CanPlay
<1>. QED
  BY <1>1, <1>3, <1>4, <1>5, <1>6, <1>7, <1>8, <1>10, <1>11 DEF Fine, Phase, x

\* A command ends the pause.
LEMMA EndPauseFine ==
  ASSUME NEW a, NEW o, NEW S, NEW F, NEW n, NEW c, NEW e, Context(S, F, n, c, e),
         Fine(a, o, S, F, n, c, e, FALSE),
         o.at = "paused", o.command # "NONE"
  PROVE  Fine(a, [o EXCEPT !.pause = FALSE, !.at = "loop"], S, F, n, c, e, FALSE)
<1>. DEFINE x == [o EXCEPT !.pause = FALSE, !.at = "loop"]
<1>0. o \in Records
  BY DEF Fine
<1>1. x \in Records
  BY <1>0 DEF Records, Places, Commands
<1>2. /\ x.at = "loop" /\ x.pause = FALSE /\ x.then = o.then /\ x.command = o.command
      /\ x.open = o.open /\ x.source = o.source /\ x.enabled = o.enabled
      /\ x.really = o.really /\ x.allow = o.allow /\ x.reopen = o.reopen
      /\ x.interrupt = o.interrupt /\ x.caught = o.caught /\ x.inloop = o.inloop
      /\ x.woken = o.woken /\ x.failed = o.failed /\ x.filter = o.filter /\ x.killed = o.killed
      /\ x.chunk = o.chunk /\ x.consumed = o.consumed /\ x.current = o.current
      /\ x.pipe = o.pipe /\ x.request = o.request /\ x.last = o.last
  BY <1>0 DEF Records
<1>. HIDE DEF x
<1>3. Local(a, x)
  BY <1>2 DEF Fine, Local
<1>4. Expected(a, x, S, F)
  BY <1>2, SameCommand DEF Fine
<1>5. Link(a, x, S, n)
  BY <1>2 DEF Fine, Local, Link
<1>n. o.chunk \in Nat /\ o.current \in Nat /\ o.last \in Nat
      /\ o.source \in {"CLOSED", "OPEN", "FLUSHED"}
  BY <1>0 DEF Records
<1>6. Data(a, x, S, n, c, e)
  BY <1>n, <1>2 DEF Fine, Local, Data, Idle, Context
<1>c. /\ One("reset") \in S => o.command \in {"NONE", "CLOSE", "RELEASE"}
      /\ One("clear") \in S => o.command \in {"NONE", "CANCEL"}
      /\ One("push") \in S => o.command \in {"NONE", "OPEN", "CLOSE"}
      /\ One("shift") \in S => o.command = "NONE"
  BY CommandsApart DEF Fine
<1>7. Closing(a, x, S, n)
  BY <1>n, <1>2, <1>c DEF Fine, Local, Phase, Closing, Data, Idle, Context
<1>8. Clearing(a, x, S, n)
  BY <1>n, <1>2, <1>c DEF Fine, Local, Phase, Clearing, Data, Idle, Context
<1>10. Shifting(a, x, S, n, c)
  BY <1>n, <1>2, <1>c DEF Fine, Local, Phase, Shifting, Data, Idle, Context
<1>11. Sleeper(a, x, S, n, c, FALSE)
  BY <1>2 DEF Sleeper, Nothing, CanPlay
<1>. QED
  BY <1>1, <1>3, <1>4, <1>5, <1>6, <1>7, <1>8, <1>10, <1>11 DEF Fine, Phase, x

\* InternalOpen(): the source keeps its place in the pipe.
LEMMA ReopenedFine ==
  ASSUME NEW a, NEW o, NEW S, NEW F, NEW n, NEW c, NEW e, Context(S, F, n, c, e),
         Fine(a, o, S, F, n, c, e, FALSE),
         o.at = "opening", e, o.source # "CLOSED"
  PROVE  Fine(a, [o EXCEPT !.source = "OPEN", !.filter = "open", !.pipe = "live", !.open = TRUE,
                                    !.command = "NONE", !.at = "loop", !.then = ""], S, F, n, c, e, FALSE)
<1>. DEFINE x == [o EXCEPT !.source = "OPEN", !.filter = "open", !.pipe = "live", !.open = TRUE,
                                    !.command = "NONE", !.at = "loop", !.then = ""]
<1>0. o \in Records
  BY DEF Fine
<1>1. x \in Records
  BY <1>0, Values, Zenon DEF Records
<1>2. /\ x.at = "loop" /\ x.then = "" /\ x.command = "NONE" /\ x.open = TRUE
      /\ x.source = "OPEN" /\ x.pipe = "live" /\ x.enabled = o.enabled
      /\ x.really = o.really /\ x.allow = o.allow /\ x.reopen = o.reopen
      /\ x.pause = o.pause /\ x.interrupt = o.interrupt /\ x.caught = o.caught
      /\ x.inloop = o.inloop /\ x.woken = o.woken /\ x.failed = o.failed /\ x.filter = "open"
      /\ x.killed = o.killed /\ x.chunk = o.chunk /\ x.consumed = o.consumed
      /\ x.current = o.current /\ x.request = o.request /\ x.last = o.last
  BY <1>0 DEF Records
<1>. HIDE DEF x
<1>3. Local(a, x)
  BY <1>2 DEF Fine, Local
<1>4. Expected(a, x, S, F)
  BY <1>2, SameCommand DEF Fine
<1>5. Link(a, x, S, n)
  BY <1>2 DEF Fine, Local, Link
<1>n. o.chunk \in Nat /\ o.current \in Nat /\ o.last \in Nat
      /\ o.source \in {"CLOSED", "OPEN", "FLUSHED"}
  BY <1>0 DEF Records
<1>6. Data(a, x, S, n, c, e)
  BY <1>n, <1>2, ZenonT(60) DEF Fine, Local, Data, Idle, Context
<1>c. /\ One("reset") \in S => o.command \in {"NONE", "CLOSE", "RELEASE"}
      /\ One("clear") \in S => o.command \in {"NONE", "CANCEL"}
      /\ One("push") \in S => o.command \in {"NONE", "OPEN", "CLOSE"}
      /\ One("shift") \in S => o.command = "NONE"
  BY CommandsApart DEF Fine
<1>7. Closing(a, x, S, n)
  BY <1>n, <1>2, <1>c DEF Fine, Local, Phase, Closing, Data, Idle, Context
<1>8. Clearing(a, x, S, n)
  BY <1>n, <1>2, <1>c DEF Fine, Local, Phase, Clearing, Data, Idle, Context
<1>10. Shifting(a, x, S, n, c)
  BY <1>n, <1>2, <1>c DEF Fine, Local, Phase, Shifting, Data, Idle, Context
<1>11. Sleeper(a, x, S, n, c, FALSE)
  BY <1>2 DEF Sleeper, Nothing, CanPlay
<1>. QED
  BY <1>1, <1>3, <1>4, <1>5, <1>6, <1>7, <1>8, <1>10, <1>11 DEF Fine, Phase, x

\* InternalOpen(): the source begins with the pipe.
LEMMA OpenedFine ==
  ASSUME NEW a, NEW o, NEW S, NEW F, NEW n, NEW c, NEW e, Context(S, F, n, c, e),
         Fine(a, o, S, F, n, c, e, FALSE),
         o.at = "opening", e
  PROVE  Fine(a, [o EXCEPT !.source = "OPEN", !.filter = "open", !.pipe = "live", !.open = TRUE, !.chunk = 0, !.current = 0,
                                    !.last = 0, !.command = "NONE", !.at = "loop", !.then = ""], S, F, n, c, e, FALSE)
<1>. DEFINE x == [o EXCEPT !.source = "OPEN", !.filter = "open", !.pipe = "live", !.open = TRUE, !.chunk = 0, !.current = 0,
                                    !.last = 0, !.command = "NONE", !.at = "loop", !.then = ""]
<1>0. o \in Records
  BY DEF Fine
<1>1. x \in Records
  BY <1>0, Values, Zenon DEF Records
<1>2. /\ x.at = "loop" /\ x.then = "" /\ x.command = "NONE" /\ x.open = TRUE
      /\ x.source = "OPEN" /\ x.pipe = "live" /\ x.chunk = 0 /\ x.current = 0 /\ x.last = 0
      /\ x.enabled = o.enabled /\ x.really = o.really /\ x.allow = o.allow
      /\ x.reopen = o.reopen /\ x.pause = o.pause /\ x.interrupt = o.interrupt
      /\ x.caught = o.caught /\ x.inloop = o.inloop /\ x.woken = o.woken
      /\ x.failed = o.failed /\ x.filter = "open" /\ x.killed = o.killed /\ x.consumed = o.consumed
      /\ x.request = o.request
  BY <1>0 DEF Records
<1>. HIDE DEF x
<1>3. Local(a, x)
  BY <1>2 DEF Fine, Local
<1>4. Expected(a, x, S, F)
  BY <1>2, SameCommand DEF Fine
<1>5. Link(a, x, S, n)
  BY <1>2 DEF Fine, Local, Link
<1>n. o.chunk \in Nat /\ o.current \in Nat /\ o.last \in Nat
      /\ o.source \in {"CLOSED", "OPEN", "FLUSHED"}
  BY <1>0 DEF Records
<1>6. Data(a, x, S, n, c, e)
  <2>1. x.chunk = 0 /\ x.current = 0 /\ x.last = 0 /\ x.source = "OPEN" /\ x.command = "NONE"
        /\ x.at = "loop" /\ x.pipe = "live"
    BY <1>2
  <2>2. c \in Nat /\ 0 <= c
    BY DEF Context
  <2>. QED
    BY <2>1, <2>2 DEF Data, Idle
<1>c. /\ One("reset") \in S => o.command \in {"NONE", "CLOSE", "RELEASE"}
      /\ One("clear") \in S => o.command \in {"NONE", "CANCEL"}
      /\ One("push") \in S => o.command \in {"NONE", "OPEN", "CLOSE"}
      /\ One("shift") \in S => o.command = "NONE"
  BY CommandsApart DEF Fine
<1>7. Closing(a, x, S, n)
  BY <1>n, <1>2, <1>c DEF Fine, Local, Phase, Closing, Data, Idle, Context
<1>8. Clearing(a, x, S, n)
  BY <1>n, <1>2, <1>c DEF Fine, Local, Phase, Clearing, Data, Idle, Context
<1>10. Shifting(a, x, S, n, c)
  BY <1>n, <1>2, <1>c DEF Fine, Local, Phase, Shifting, Data, Idle, Context
<1>11. Sleeper(a, x, S, n, c, FALSE)
  BY <1>2 DEF Sleeper, Nothing, CanPlay
<1>. QED
  BY <1>1, <1>3, <1>4, <1>5, <1>6, <1>7, <1>8, <1>10, <1>11 DEF Fine, Phase, x

\* InternalOpen(): the filter cannot be opened.  The device stays as it is.
LEMMA LostFine ==
  ASSUME NEW a, NEW o, NEW S, NEW F, NEW n, NEW c, NEW e, Context(S, F, n, c, e),
         Fine(a, o, S, F, n, c, e, FALSE),
         o.at = "opening", e, NEW x \in Records, x.at = "loop", x.command = "NONE", x.open = o.open,
         x.source = o.source, x.really = o.really, x.allow = o.allow, x.reopen = o.reopen,
         x.interrupt = o.interrupt, x.caught = o.caught, x.inloop = o.inloop,
         x.filter = "null", x.pipe = "live",
         \/ x.chunk = 0 /\ x.current = 0 /\ x.last = 0
         \/ x.chunk = o.chunk /\ x.consumed = o.consumed /\ x.current = o.current /\ x.last = o.last
  PROVE  Fine(a, x, S, F, n, c, e, FALSE)
<1>0. o \in Records
  BY DEF Fine
<1>3. Local(a, x)
  BY DEF Fine, Local
<1>4. Expected(a, x, S, F)
  BY SameCommand DEF Fine
<1>5. Link(a, x, S, n)
  BY DEF Fine, Local, Link
<1>n. o.chunk \in Nat /\ o.current \in Nat /\ o.last \in Nat
  BY <1>0 DEF Records
<1>6. Data(a, x, S, n, c, e)
  <2>1. Data(a, o, S, n, c, e) /\ c \in Nat /\ 0 <= c
    BY DEF Fine, Context
  <2>2. CASE x.chunk = 0 /\ x.current = 0 /\ x.last = 0
    BY <2>1, <2>2 DEF Data
  <2>3. CASE x.chunk = o.chunk /\ x.consumed = o.consumed /\ x.current = o.current /\ x.last = o.last
    BY <2>1, <2>3 DEF Data
  <2>. QED
    BY <2>2, <2>3
<1>c. /\ One("reset") \in S => o.command \in {"NONE", "CLOSE", "RELEASE"}
      /\ One("clear") \in S => o.command \in {"NONE", "CANCEL"}
      /\ One("shift") \in S => o.command = "NONE"
  BY CommandsApart DEF Fine
<1>p. o.command = "OPEN"
  BY DEF Fine, Local
<1>7. Phase(a, x, S, n, c)
  BY <1>c, <1>p DEF Phase, Closing, Clearing, Shifting
<1>. QED
  BY <1>3, <1>4, <1>5, <1>6, <1>7 DEF Fine, Sleeper

----------------------------------------------------------------------------
(***************************************************************************)
(* The inductive invariant.                                                *)
(***************************************************************************)

\* The pipe has the last of the chunks that were pushed.
PipeInv ==
  /\ pipe \in Seq(Nat) /\ pushed \in 0..MaxChunks /\ Len(pipe) <= pushed
  /\ \A i \in DOMAIN pipe : pipe[i] = pushed - Len(pipe) + i
  /\ exists \in BOOLEAN /\ client \in [open : BOOLEAN, paused : BOOLEAN, done : BOOLEAN]
  /\ ~exists => Len(pipe) = 0
  /\ client.open => exists

\* What the steps of an operation need of the pipe
PlayerInv(S) ==
  /\ One("reset") \in S => ~client.open
  /\ \A s \in S : s.do = "kill" => client.done
  /\ One("push") \in S => pushed < MaxChunks
  /\ \A s \in S : s.do \in {"update", "updated", "force", "opened", "push"} => exists
  /\ \A s \in S : s.do = "drain" => Len(pipe) = 0
  /\ One("shift") \in S => Len(pipe) # 0
  /\ \A s \in S : s.do = "tail" => Len(pipe) = 1
  /\ Len(pipe) = 1 => \A a, b \in Outputs : Step("consumed", a) \in S => Step("tail", b) \in S

Left == Steps(todo)
Now == First(todo)

FineNow(a) == Fine(a, ao[a], Left, Now, Len(pipe), pushed, exists, a \in asleep)

Inv ==
  /\ Sorted(todo) /\ Program(Left, Now) /\ PipeInv /\ PlayerInv(Left)
  /\ ao \in [Outputs -> Records] /\ asleep \subseteq Outputs
  /\ \A a \in Outputs : FineNow(a)

\* The player's part of the invariant
LEMMA InvContext ==
  ASSUME Inv
  PROVE  Context(Left, Now, Len(pipe), pushed, exists)
  BY DEF Inv, PipeInv, Context

\* The first chunk of a part of the pipe
LEMMA LeastOf ==
  ASSUME NEW i \in Nat, NEW j \in Nat, i <= j
  PROVE  Min(i..j) = i
<1>1. i \in i..j /\ \A y \in i..j : i <= y
  OBVIOUS
<1>2. \A x \in i..j : (\A y \in i..j : x <= y) => x = i
  OBVIOUS
<1>. QED
  BY <1>1, <1>2 DEF Min

\* The pipe is an interval.
LEMMA PipeFacts ==
  ASSUME PipeInv
  PROVE  /\ Len(pipe) \in Nat /\ pushed \in Nat /\ pushed - Len(pipe) \in Nat
         /\ ToSet(pipe) = (pushed - Len(pipe) + 1) .. pushed
         /\ \A m : Contains(pipe, m) <=> m \in (pushed - Len(pipe) + 1) .. pushed
         /\ pipe # << >> => Head(pipe) = pushed - Len(pipe) + 1
         /\ pipe = << >> <=> Len(pipe) = 0
<1>1. /\ Len(pipe) \in Nat /\ pushed \in Nat /\ pushed - Len(pipe) \in Nat
      /\ DOMAIN pipe = 1 .. Len(pipe)
      /\ pipe = << >> <=> Len(pipe) = 0
  <2>1. MaxChunks \in Nat
    BY OutputsAssumption
  <2>. QED
    BY <2>1, LenProperties, EmptySeq DEF PipeInv
<1>2. ToSet(pipe) = (pushed - Len(pipe) + 1) .. pushed
  <2>1. ASSUME NEW m \in (pushed - Len(pipe) + 1) .. pushed PROVE \E i \in DOMAIN pipe : m = pipe[i]
    <3>1. m - (pushed - Len(pipe)) \in DOMAIN pipe
      BY <1>1
    <3>2. pipe[m - (pushed - Len(pipe))] = m
      BY <1>1, <3>1, SMTT(30) DEF PipeInv
    <3>. QED
      BY <3>1, <3>2
  <2>2. ASSUME NEW i \in DOMAIN pipe PROVE pipe[i] \in (pushed - Len(pipe) + 1) .. pushed
    BY <1>1 DEF PipeInv
  <2>. QED
    BY <2>1, <2>2 DEF ToSet
<1>3. \A m : Contains(pipe, m) <=> m \in ToSet(pipe)
  BY DEF Contains, ToSet
<1>4. pipe # << >> => Head(pipe) = pushed - Len(pipe) + 1
  BY <1>1, HeadTailProperties DEF PipeInv
<1>. QED
  BY <1>1, <1>2, <1>3, <1>4

\* SharedPipeConsumer::Get() finds the successor of the chunk, if there is one.
LEMMA GetFacts ==
  ASSUME PipeInv, NEW o, o.chunk \in Nat, o.consumed \in BOOLEAN,
         o.chunk # 0 /\ o.pipe = "live" => o.chunk > pushed - Len(pipe) /\ o.chunk <= pushed
  PROVE  /\ Get(o) \in Nat
         /\ Get(o) = 0 <=> Nothing(o, Len(pipe), pushed)
         /\ Get(o) # 0 =>
              /\ o.pipe = "live" /\ Get(o) > pushed - Len(pipe) /\ Get(o) <= pushed
              /\ o.chunk = 0 => Get(o) = pushed - Len(pipe) + 1
              /\ o.chunk # 0 /\ o.consumed => Get(o) = o.chunk + 1
<1>. DEFINE k == pushed - Len(pipe)
            later == {m \in ToSet(pipe) : m > o.chunk}
<1>1. Len(pipe) \in Nat /\ pushed \in Nat /\ k \in Nat /\ ToSet(pipe) = (k + 1) .. pushed
      /\ (k = pushed <=> Len(pipe) = 0) /\ k <= pushed
  BY PipeFacts
<1>2. CASE o.pipe # "live"
  BY <1>2 DEF Get, Nothing
<1>3. CASE o.pipe = "live" /\ o.chunk # 0 /\ ~o.consumed
  BY <1>1, <1>3 DEF Get, Nothing
<1>4. CASE o.pipe = "live" /\ o.chunk = 0
  <2>1. later = (k + 1) .. pushed
    BY <1>1, <1>4
  <2>2. Get(o) = IF later = {} THEN 0 ELSE Min(later)
    BY <1>4, Zenon DEF Get
  <2>. HIDE DEF later, k
  <2>3. CASE k = pushed
    <3>1. later = {} /\ Get(o) = 0
      BY <1>1, <2>1, <2>2, <2>3
    <3>. QED
      BY <1>1, <1>4, <2>3, <3>1 DEF Nothing
  <2>4. CASE k # pushed
    <3>0. k + 1 <= pushed /\ k + 1 \in Nat
      BY <1>1, <2>4
    <3>1. k + 1 <= pushed /\ later # {}
      BY <1>1, <2>1, <3>0
    <3>2. Min(later) = k + 1
      BY <1>1, <2>1, <3>1, LeastOf
    <3>. QED
      BY <1>1, <1>4, <2>2, <2>4, <3>1, <3>2 DEF Nothing, k
  <2>. QED
    BY <2>3, <2>4
<1>5. CASE o.pipe = "live" /\ o.chunk # 0 /\ o.consumed
  <2>1. later = (o.chunk + 1) .. pushed
    BY <1>1, <1>5
  <2>2. Get(o) = IF later = {} THEN 0 ELSE Min(later)
    BY <1>5, Zenon DEF Get
  <2>. HIDE DEF later
  <2>3. CASE o.chunk = pushed
    <3>1. later = {} /\ Get(o) = 0
      BY <1>1, <2>1, <2>2, <2>3
    <3>. QED
      BY <1>1, <1>5, <2>3, <3>1 DEF Nothing
  <2>4. CASE o.chunk # pushed
    <3>0. o.chunk + 1 <= pushed /\ o.chunk + 1 \in Nat
      BY <1>1, <1>5, <2>4
    <3>1. o.chunk + 1 <= pushed /\ later # {}
      BY <1>1, <2>1, <3>0
    <3>2. Min(later) = o.chunk + 1
      BY <1>1, <2>1, <3>1, LeastOf
    <3>. QED
      BY <1>1, <1>5, <2>2, <2>4, <3>1, <3>2 DEF Nothing, k
  <2>. QED
    BY <2>3, <2>4
<1>. QED
  BY <1>2, <1>3, <1>4, <1>5

\* A step of one output's thread is no matter of the others.
LEMMA ThreadKeeps ==
  ASSUME Inv, NEW a \in Outputs, NEW x, ao' = [ao EXCEPT ![a] = x], ThreadUnchanged,
         asleep' = asleep \/ asleep' = asleep \cup {a},
         Fine(a, x, Left, Now, Len(pipe), pushed, exists, a \in asleep')
  PROVE  Inv'
<1>1. Left' = Left /\ Now' = Now /\ pipe' = pipe /\ pushed' = pushed /\ exists' = exists
      /\ client' = client /\ todo' = todo
  BY DEF ThreadUnchanged, Left, Now
<1>2. Sorted(todo)' /\ Program(Left, Now)' /\ PipeInv' /\ PlayerInv(Left)'
  BY <1>1 DEF Inv, PipeInv, PlayerInv
<1>3. ao \in [Outputs -> Records] /\ asleep \subseteq Outputs /\ x \in Records
  BY DEF Inv, Fine
<1>4. ao' \in [Outputs -> Records] /\ asleep' \subseteq Outputs
  BY <1>3
<1>5. ASSUME NEW b \in Outputs PROVE FineNow(b)'
  <2>1. CASE b = a
    <3>1. ao'[b] = x
      BY <1>3, <2>1
    <3>. QED
      BY <1>1, <2>1, <3>1 DEF FineNow
  <2>2. CASE b # a
    <3>1. ao'[b] = ao[b] /\ (b \in asleep' <=> b \in asleep) /\ FineNow(b)
      BY <1>3, <2>2 DEF Inv
    <3>2. (b \in asleep') = (b \in asleep)
      BY <3>1
    <3>. QED
      BY <1>1, <3>1, <3>2 DEF FineNow
  <2>. QED
    BY <2>1, <2>2
<1>. QED
  BY <1>2, <1>4, <1>5 DEF Inv

\* What is known of an output whose thread takes a step
LEMMA AwakeFacts ==
  ASSUME Inv, NEW a \in Outputs, a \notin asleep
  PROVE  /\ Fine(a, ao[a], Left, Now, Len(pipe), pushed, exists, FALSE)
         /\ ao[a] \in Records /\ Local(a, ao[a])
         /\ ao[a].chunk \in Nat /\ ao[a].consumed \in BOOLEAN
         /\ Data(a, ao[a], Left, Len(pipe), pushed, exists)
<1>1. FineNow(a) /\ (a \in asleep) = FALSE
  BY DEF Inv
<1>2. Fine(a, ao[a], Left, Now, Len(pipe), pushed, exists, FALSE)
  BY <1>1 DEF FineNow
<1>. QED
  BY <1>2 DEF Fine, Records

\* Task() without a command
LEMMA TaskPlaysKeeps ==
  ASSUME Inv, NEW a \in Outputs, TaskPlays(a)
  PROVE  Inv'
<1>. DEFINE o == ao[a]
<1>1. o.at = "loop" /\ a \notin asleep /\ o.command = "NONE" /\ ThreadUnchanged
  BY DEF TaskPlays, At
<1>2. /\ Fine(a, o, Left, Now, Len(pipe), pushed, exists, FALSE) /\ o \in Records
      /\ o.chunk \in Nat /\ o.consumed \in BOOLEAN
      /\ Data(a, o, Left, Len(pipe), pushed, exists)
  BY <1>1, AwakeFacts
<1>3. Context(Left, Now, Len(pipe), pushed, exists) /\ PipeInv
  BY InvContext DEF Inv
<1>4. o.open => (o.chunk # 0 => o.pipe = "live" /\ o.chunk > pushed - Len(pipe) /\ o.chunk <= pushed)
                /\ (o.chunk # 0 /\ o.current = 0 => o.consumed)
  BY <1>2 DEF Data
<1>5. CASE CanPlay(o) /\ o.current # 0
  <2>1. Go(a, PlayOrLeave(o))
    BY <1>5 DEF TaskPlays
  <2>2. Fine(a, PlayOrLeave(o), Left, Now, Len(pipe), pushed, exists, FALSE)
    BY <1>1, <1>2, <1>3, <1>5, PlayFine DEF CanPlay
  <2>3. ao' = [ao EXCEPT ![a] = PlayOrLeave(o)] /\ asleep' = asleep /\ (a \in asleep') = FALSE
    BY <1>1, <2>1 DEF Go, Set
  <2>. QED
    BY <1>1, <2>2, <2>3, ThreadKeeps
<1>6. CASE CanPlay(o) /\ o.current = 0 /\ Get(o) # 0
  <2>1. Go(a, Filling(o))
    BY <1>6 DEF TaskPlays
  <2>2. Get(o) \in Nat /\ o.pipe = "live" /\ Get(o) > pushed - Len(pipe) /\ Get(o) <= pushed
        /\ (o.chunk = 0 => Get(o) = pushed - Len(pipe) + 1)
        /\ (o.chunk # 0 /\ o.consumed => Get(o) = o.chunk + 1)
    BY <1>2, <1>3, <1>4, <1>6, GetFacts DEF CanPlay
  <2>3. Fine(a, Filling(o), Left, Now, Len(pipe), pushed, exists, FALSE)
    BY <1>1, <1>2, <1>3, <1>4, <1>6, <2>2, FillFine DEF CanPlay, Filling
  <2>4. ao' = [ao EXCEPT ![a] = Filling(o)] /\ asleep' = asleep /\ (a \in asleep') = FALSE
    BY <1>1, <2>1 DEF Go, Set
  <2>. QED
    BY <1>1, <2>3, <2>4, ThreadKeeps
<1>7. CASE ~(CanPlay(o) /\ o.current # 0) /\ ~(CanPlay(o) /\ o.current = 0 /\ Get(o) # 0)
  <2>. DEFINE x == [o EXCEPT !.woken = FALSE]
  <2>1. Sleep(a, x)
    BY <1>7 DEF TaskPlays
  <2>2. CanPlay(o) => o.current = 0 /\ Nothing(o, Len(pipe), pushed)
    <3>. SUFFICES ASSUME CanPlay(o) PROVE o.current = 0 /\ Nothing(o, Len(pipe), pushed)
      OBVIOUS
    <3>1. o.current = 0 /\ Get(o) = 0
      BY <1>7
    <3>2. o.chunk # 0 /\ o.pipe = "live" => o.chunk > pushed - Len(pipe) /\ o.chunk <= pushed
      BY <1>4 DEF CanPlay
    <3>3. Get(o) = 0 <=> Nothing(o, Len(pipe), pushed)
      BY <1>2, <1>3, <3>2, GetFacts
    <3>. QED
      BY <3>1, <3>3
  <2>3. Fine(a, x, Left, Now, Len(pipe), pushed, exists, TRUE)
    BY <1>1, <1>2, <1>3, <2>2, SleepFine
  <2>4. ao' = [ao EXCEPT ![a] = x] /\ asleep' = asleep \cup {a} /\ (a \in asleep') = TRUE
    BY <2>1 DEF Sleep
  <2>. HIDE DEF x
  <2>. QED
    BY <1>1, <2>3, <2>4, ThreadKeeps
<1>. QED
  BY <1>5, <1>6, <1>7

\* A step to a place where the thread does not sleep
LEMMA GoKeeps ==
  ASSUME Inv, NEW a \in Outputs, a \notin asleep, NEW x, Set(a, x), ThreadUnchanged,
         Fine(a, x, Left, Now, Len(pipe), pushed, exists, FALSE)
  PROVE  Inv'
<1>1. ao' = [ao EXCEPT ![a] = x] /\ asleep' = asleep /\ (a \in asleep') = FALSE
  BY DEF Set
<1>. QED
  BY <1>1, ThreadKeeps

\* FilterChunk() has returned or thrown.
LEMMA FilterKeeps ==
  ASSUME Inv, NEW a \in Outputs, Filter(a)
  PROVE  Inv'
<1>. DEFINE o == ao[a]
            y == [o EXCEPT !.current = 0, !.failed = TRUE]
            t == IF o.inloop THEN "notify" ELSE "failed"
<1>1. o.at = "filter" /\ a \notin asleep /\ ThreadUnchanged
  BY DEF Filter, At
<1>2. /\ Fine(a, o, Left, Now, Len(pipe), pushed, exists, FALSE) /\ o \in Records
      /\ o.open /\ o.source = "OPEN" /\ o.current # 0
  BY <1>1, AwakeFacts DEF Local
<1>3. Context(Left, Now, Len(pipe), pushed, exists)
  BY InvContext
<1>4. \/ Set(a, PlayOrLeave(o))
      \/ Set(a, CloseError([o EXCEPT !.current = 0], t))
  BY Zenon DEF Filter, Go, Fault
<1>5. CASE Set(a, PlayOrLeave(o))
  <2>1. Fine(a, PlayOrLeave(o), Left, Now, Len(pipe), pushed, exists, FALSE)
    BY <1>1, <1>2, <1>3, PlayFine
  <2>. QED
    BY <1>1, <1>5, <2>1, GoKeeps
<1>6. CASE Set(a, CloseError([o EXCEPT !.current = 0], t))
  <2>1. [[o EXCEPT !.current = 0] EXCEPT !.failed = TRUE] = y /\ y \in Records
    BY <1>2 DEF Records
  <2>2. CloseError([o EXCEPT !.current = 0], t) = Close(y, t)
    BY <2>1 DEF CloseError
  <2>3. /\ y.command = o.command /\ y.source = o.source /\ y.really = o.really /\ y.allow = o.allow
        /\ y.inloop = o.inloop /\ y.chunk = o.chunk /\ y.current \in {0, o.current} /\ y.last = o.last
        /\ y.pipe = o.pipe
    BY <1>2 DEF Records
  <2>4. t \in {"disable", "finish", "endPause", "notify", "failed"} /\ t # "disable" /\ (o.inloop => t = "notify")
    OBVIOUS
  <2>. HIDE DEF y, t, o
  <2>5. Fine(a, Close(y, t), Left, Now, Len(pipe), pushed, exists, FALSE)
    BY <1>1, <1>2, <1>3, <2>1, <2>3, <2>4, CloseFine
  <2>. QED
    BY <1>1, <1>6, <2>2, <2>5, GoKeeps
<1>. QED
  BY <1>4, <1>5, <1>6

\* FilteredAudioOutput::Play() has returned or thrown.
LEMMA DevicePlaysKeeps ==
  ASSUME Inv, NEW a \in Outputs, DevicePlays(a)
  PROVE  Inv'
<1>. DEFINE o == ao[a]
            p == Consume(o)
            q == [p EXCEPT !.at = "notify"]
            y == [o EXCEPT !.failed = TRUE]
<1>1. o.at = "device" /\ a \notin asleep /\ ThreadUnchanged
  BY DEF DevicePlays, At
<1>2. /\ Fine(a, o, Left, Now, Len(pipe), pushed, exists, FALSE) /\ o \in Records
      /\ o.open /\ o.source = "OPEN" /\ o.current # 0
      /\ Data(a, o, Left, Len(pipe), pushed, exists)
  BY <1>1, AwakeFacts DEF Local
<1>3. Context(Left, Now, Len(pipe), pushed, exists) /\ PipeInv
  BY InvContext DEF Inv
<1>4. \/ Get(p) # 0 /\ Set(a, Filling(p))
      \/ Set(a, q)
      \/ o.interrupt /\ Set(a, [o EXCEPT !.caught = TRUE, !.at = "notify"])
      \/ Set(a, CloseError(o, "notify"))
  BY Zenon DEF DevicePlays, Go, Fault
<1>5. Fine(a, q, Left, Now, Len(pipe), pushed, exists, FALSE)
  BY <1>1, <1>2, <1>3, ConsumeFine
<1>6. CASE Get(p) # 0 /\ Set(a, Filling(p))
  <2>1. /\ q.chunk = o.chunk /\ q.consumed = TRUE /\ q.current = 0 /\ q.at = "notify" /\ q.open = o.open
        /\ q.source = o.source /\ q.pipe = o.pipe /\ o.chunk \in Nat
        /\ p.chunk = o.chunk /\ p.consumed = TRUE /\ p.pipe = o.pipe
    BY <1>2 DEF Consume, Records
  <2>2. o.chunk # 0 /\ o.pipe = "live" /\ o.chunk > pushed - Len(pipe) /\ o.chunk <= pushed
    BY <1>2 DEF Data
  <2>3. Get(p) \in Nat /\ Get(p) > pushed - Len(pipe) /\ Get(p) <= pushed /\ Get(p) = o.chunk + 1
    <3>1. p.chunk \in Nat /\ p.consumed \in BOOLEAN
          /\ (p.chunk # 0 /\ p.pipe = "live" => p.chunk > pushed - Len(pipe) /\ p.chunk <= pushed)
      BY <2>1, <2>2
    <3>. HIDE DEF p
    <3>. QED
      BY <1>3, <1>6, <2>1, <2>2, <3>1, GetFacts
  <2>. DEFINE g == Get(p)
              x == [q EXCEPT !.chunk = g, !.consumed = FALSE, !.current = g, !.at = "filter"]
  <2>4. Filling(p) = x
    BY <1>2 DEF Filling, Consume, Records
  <2>. HIDE DEF g, q, p, o
  <2>5. Fine(a, x, Left, Now, Len(pipe), pushed, exists, FALSE)
    BY <1>2, <1>3, <1>5, <1>6, <2>1, <2>2, <2>3, FillFine DEF g
  <2>. HIDE DEF x
  <2>. QED
    BY <1>1, <1>6, <2>4, <2>5, GoKeeps
<1>7. CASE Set(a, q)
  <2>. HIDE DEF q
  <2>. QED
    BY <1>1, <1>5, <1>7, GoKeeps
<1>8. CASE o.interrupt /\ Set(a, [o EXCEPT !.caught = TRUE, !.at = "notify"])
  <2>1. Fine(a, [o EXCEPT !.caught = TRUE, !.at = "notify"], Left, Now, Len(pipe), pushed, exists, FALSE)
    BY <1>1, <1>2, <1>3, <1>8, CaughtFine
  <2>. QED
    BY <1>1, <1>8, <2>1, GoKeeps
<1>9. CASE Set(a, CloseError(o, "notify"))
  <2>1. /\ y \in Records
        /\ y.command = o.command /\ y.source = o.source /\ y.really = o.really /\ y.allow = o.allow
        /\ y.inloop = o.inloop /\ y.chunk = o.chunk /\ y.current \in {0, o.current} /\ y.last = o.last
        /\ y.pipe = o.pipe
    BY <1>2 DEF Records
  <2>2. CloseError(o, "notify") = Close(y, "notify")
    BY DEF CloseError
  <2>. HIDE DEF y, o
  <2>3. Fine(a, Close(y, "notify"), Left, Now, Len(pipe), pushed, exists, FALSE)
    BY <1>1, <1>2, <1>3, <2>1, CloseFine
  <2>. QED
    BY <1>1, <1>9, <2>2, <2>3, GoKeeps
<1>. QED
  BY <1>4, <1>6, <1>7, <1>8, <1>9

\* ChunksConsumed() has returned.
LEMMA ChunksConsumedKeeps ==
  ASSUME Inv, NEW a \in Outputs, ChunksConsumed(a)
  PROVE  Inv'
<1>. DEFINE o == ao[a]
<1>1. /\ o.at = "notify" /\ a \notin asleep /\ ThreadUnchanged
      /\ Set(a, [o EXCEPT !.inloop = FALSE, !.at = "loop"])
  BY Zenon DEF ChunksConsumed, At, Go
<1>2. Fine(a, [o EXCEPT !.inloop = FALSE, !.at = "loop"], Left, Now, Len(pipe), pushed, exists, FALSE)
  BY <1>1, AwakeFacts, InvContext, NotifiedFine
<1>. QED
  BY <1>1, <1>2, GoKeeps

\* An output whose device is closed: the thread goes on, or sleeps.
LEMMA ShutKeeps ==
  ASSUME Inv, NEW a \in Outputs, a \notin asleep, NEW x \in Records,
         ao' = [ao EXCEPT ![a] = x], asleep' = asleep \/ asleep' = asleep \cup {a}, ThreadUnchanged,
         ~x.open, x.source = "CLOSED", x.chunk = 0, x.current = 0, x.last = 0,
         x.command \in {ao[a].command, "NONE"}, x.allow = ao[a].allow,
         x.pipe = ao[a].pipe \/ (x.pipe = "live" /\ exists), x.at \notin {"cancelling", "pausing"}, Local(a, x),
         a \in asleep' => x.at = "failed" /\ ~x.woken
  PROVE  Inv'
<1>1. Fine(a, ao[a], Left, Now, Len(pipe), pushed, exists, FALSE)
      /\ Context(Left, Now, Len(pipe), pushed, exists)
  BY AwakeFacts, InvContext
<1>2. /\ Fine(a, x, Left, Now, Len(pipe), pushed, exists, FALSE)
      /\ x.at = "failed" /\ ~x.woken => Fine(a, x, Left, Now, Len(pipe), pushed, exists, TRUE)
  BY <1>1, ShutFine
<1>3. Fine(a, x, Left, Now, Len(pipe), pushed, exists, a \in asleep')
  <2>1. CASE a \in asleep'
    <3>1. (a \in asleep') = TRUE
      BY <2>1
    <3>. QED
      BY <1>2, <2>1, <3>1
  <2>2. CASE a \notin asleep'
    <3>1. (a \in asleep') = FALSE
      BY <2>2
    <3>. QED
      BY <1>2, <3>1
  <2>. QED
    BY <2>1, <2>2
<1>. QED
  BY <1>3, ThreadKeeps

\* InternalClose() has closed the device and the source.
LEMMA ClosedKeeps ==
  ASSUME Inv, NEW a \in Outputs, Closed(a)
  PROVE  Inv'
<1>. DEFINE r == ao[a]
            o == SourceCancel([r EXCEPT !.source = "CLOSED", !.filter = "null"])
<1>1. r.at = "closing" /\ a \notin asleep /\ ThreadUnchanged
  BY DEF Closed, At
<1>2. r \in Records /\ Local(a, r)
  BY <1>1, AwakeFacts
<1>3. o = [r EXCEPT !.source = "CLOSED", !.filter = "null", !.chunk = 0, !.current = 0, !.last = 0]
  BY <1>2 DEF SourceCancel, Records
<1>4. \/ /\ r.then = "disable"
         /\ Set(a, [o EXCEPT !.really = FALSE, !.at = "disabling"])
      \/ r.then # "notify" /\ Set(a, Finished(o))
      \/ r.then # "notify" /\ Set(a, [o EXCEPT !.pause = FALSE, !.at = "loop", !.then = ""])
      \/ Set(a, [o EXCEPT !.at = "notify", !.then = ""])
      \/ r.then # "notify" /\ Sleep(a, [o EXCEPT !.at = "failed", !.then = "", !.woken = FALSE])
  <2>1. o.then = r.then
    BY <1>2, <1>3 DEF Records
  <2>. QED
    BY <2>1 DEF Closed, Go
<1>. HIDE DEF o
<1>5. /\ o \in Records /\ o.then = r.then /\ o.at = r.at /\ o.open = r.open /\ o.source = "CLOSED"
      /\ o.chunk = 0 /\ o.current = 0 /\ o.last = 0 /\ o.command = r.command /\ o.allow = r.allow
      /\ o.pipe = r.pipe /\ o.inloop = r.inloop /\ o.really = r.really
  <2>1. o \in Records
    BY <1>2, <1>3, Values, Zenon DEF Records
  <2>2. /\ o.then = r.then /\ o.at = r.at /\ o.open = r.open /\ o.source = "CLOSED"
        /\ o.chunk = 0 /\ o.current = 0 /\ o.last = 0 /\ o.command = r.command /\ o.allow = r.allow
        /\ o.pipe = r.pipe /\ o.inloop = r.inloop /\ o.really = r.really
    BY <1>2, <1>3, Zenon DEF Records
  <2>. QED
    BY <2>1, <2>2
<1>6. ~o.open /\ (o.inloop => o.then = "notify") /\ (o.then = "disable" => o.command \in {"DISABLE", "KILL"})
      /\ (o.command = "OPEN" => o.really)
  BY <1>1, <1>2, <1>5 DEF Local
<1>. HIDE DEF r
<1>7. CASE o.then = "disable" /\ Set(a, [o EXCEPT !.really = FALSE, !.at = "disabling"])
  <2>. DEFINE x == [o EXCEPT !.really = FALSE, !.at = "disabling"]
  <2>1. /\ x \in Records /\ x.at = "disabling" /\ ~x.really /\ x.open = o.open /\ x.source = o.source
        /\ x.chunk = o.chunk /\ x.current = o.current /\ x.last = o.last /\ x.command = o.command
        /\ x.allow = o.allow /\ x.pipe = o.pipe /\ x.inloop = o.inloop
    BY <1>5 DEF Records, Places
  <2>2. Set(a, x)
    BY <1>7
  <2>. HIDE DEF x
  <2>3. Local(a, x)
    BY <1>5, <1>6, <1>7, <2>1 DEF Local
  <2>. QED
    BY <1>1, <1>5, <1>6, <2>1, <2>2, <2>3, ShutKeeps DEF Set, r
<1>8. CASE o.then # "notify" /\ Set(a, Finished(o))
  <2>. DEFINE x == Finished(o)
  <2>1. /\ x \in Records /\ x.at = "loop" /\ x.open = o.open /\ x.source = o.source
        /\ x.chunk = o.chunk /\ x.current = o.current /\ x.last = o.last /\ x.command = "NONE"
        /\ x.allow = o.allow /\ x.pipe = o.pipe /\ x.inloop = o.inloop
    BY <1>5, FinishedFacts
  <2>2. Set(a, x)
    BY <1>8
  <2>. HIDE DEF x
  <2>3. Local(a, x)
    BY <1>5, <1>6, <1>8, <2>1 DEF Local
  <2>. QED
    BY <1>1, <1>5, <1>6, <2>1, <2>2, <2>3, ShutKeeps DEF Set, r
<1>9. CASE o.then # "notify" /\ Set(a, [o EXCEPT !.pause = FALSE, !.at = "loop", !.then = ""])
  <2>. DEFINE x == [o EXCEPT !.pause = FALSE, !.at = "loop", !.then = ""]
  <2>1. /\ x \in Records /\ x.at = "loop" /\ x.open = o.open /\ x.source = o.source
        /\ x.chunk = o.chunk /\ x.current = o.current /\ x.last = o.last /\ x.command = o.command
        /\ x.allow = o.allow /\ x.pipe = o.pipe /\ x.inloop = o.inloop /\ x.really = o.really
    BY <1>5 DEF Records, Places
  <2>2. Set(a, x)
    BY <1>9
  <2>. HIDE DEF x
  <2>3. Local(a, x)
    BY <1>5, <1>6, <1>9, <2>1 DEF Local
  <2>. QED
    BY <1>1, <1>5, <1>6, <2>1, <2>2, <2>3, ShutKeeps DEF Set, r
<1>10. CASE Set(a, [o EXCEPT !.at = "notify", !.then = ""])
  <2>. DEFINE x == [o EXCEPT !.at = "notify", !.then = ""]
  <2>1. /\ x \in Records /\ x.at = "notify" /\ x.open = o.open /\ x.source = o.source
        /\ x.chunk = o.chunk /\ x.current = o.current /\ x.last = o.last /\ x.command = o.command
        /\ x.allow = o.allow /\ x.pipe = o.pipe /\ x.inloop = o.inloop /\ x.really = o.really
    BY <1>5 DEF Records, Places
  <2>2. Set(a, x)
    BY <1>10
  <2>. HIDE DEF x
  <2>3. Local(a, x)
    BY <1>5, <1>6, <2>1 DEF Local
  <2>. QED
    BY <1>1, <1>5, <1>6, <2>1, <2>2, <2>3, ShutKeeps DEF Set, r
<1>11. CASE o.then # "notify" /\ Sleep(a, [o EXCEPT !.at = "failed", !.then = "", !.woken = FALSE])
  <2>. DEFINE x == [o EXCEPT !.at = "failed", !.then = "", !.woken = FALSE]
  <2>1. /\ x \in Records /\ x.at = "failed" /\ x.open = o.open /\ x.source = o.source
        /\ x.chunk = o.chunk /\ x.current = o.current /\ x.last = o.last /\ x.command = o.command
        /\ x.allow = o.allow /\ x.pipe = o.pipe /\ x.inloop = o.inloop /\ x.really = o.really
        /\ ~x.woken
    BY <1>5 DEF Records, Places
  <2>2. Sleep(a, x)
    BY <1>11
  <2>. HIDE DEF x
  <2>3. Local(a, x)
    BY <1>5, <1>6, <1>11, <2>1 DEF Local
  <2>. QED
    BY <1>1, <1>5, <1>6, <2>1, <2>2, <2>3, ShutKeeps DEF Sleep, r
<1>. QED
  BY <1>4, <1>5, <1>7, <1>8, <1>9, <1>10, <1>11

\* The wait after a failed filter is over.
LEMMA FailedWakesKeeps ==
  ASSUME Inv, NEW a \in Outputs, FailedWakes(a)
  PROVE  Inv'
<1>. DEFINE o == ao[a]
            x == [o EXCEPT !.at = "loop"]
<1>1. o.at = "failed" /\ a \notin asleep /\ ThreadUnchanged /\ Set(a, x)
  BY Zenon DEF FailedWakes, At, Go
<1>2. o \in Records /\ Local(a, o)
  BY <1>1, AwakeFacts
<1>3. /\ x \in Records /\ x.at = "loop" /\ x.open = o.open /\ x.source = o.source
      /\ x.chunk = o.chunk /\ x.current = o.current /\ x.last = o.last /\ x.command = o.command
      /\ x.allow = o.allow /\ x.pipe = o.pipe /\ x.inloop = o.inloop /\ x.really = o.really
  BY <1>2 DEF Records, Places
<1>. HIDE DEF x
<1>4. ~o.open /\ o.source = "CLOSED" /\ o.chunk = 0 /\ o.current = 0 /\ o.last = 0
  BY <1>1, <1>2 DEF Local
<1>5. Local(a, x)
  BY <1>1, <1>2, <1>3, <1>4 DEF Local
<1>. QED
  BY <1>1, <1>3, <1>4, <1>5, ShutKeeps DEF Set

\* A step of a thread that leaves the output closed
LEMMA StaysShut ==
  ASSUME Inv, NEW a \in Outputs, a \notin asleep, NEW x \in Records,
         Set(a, x), ThreadUnchanged, ~x.open, x.source = "CLOSED", x.chunk = 0, x.current = 0,
         x.last = 0, x.command \in {ao[a].command, "NONE"}, x.allow = ao[a].allow,
         x.pipe = ao[a].pipe \/ (x.pipe = "live" /\ exists), x.inloop = ao[a].inloop,
         \/ x.at = "loop" /\ x.command = "NONE" /\ ~ao[a].inloop
         \/ x.at \in {"disabling", "disabled"} /\ ~x.really /\ x.command \in {"DISABLE", "KILL"} /\ ~ao[a].inloop
         \/ x.at = "done" /\ x.command = "NONE" /\ ~ao[a].inloop
  PROVE  Inv'
<1>1. ao' = [ao EXCEPT ![a] = x] /\ asleep' = asleep /\ a \notin asleep'
  BY DEF Set
<1>2. Local(a, x)
  BY DEF Local
<1>. QED
  BY <1>1, <1>2, ShutKeeps

\* Task() with a command
LEMMA TaskCommandKeeps ==
  ASSUME Inv, NEW a \in Outputs, TaskCommand(a)
  PROVE  Inv'
<1>. DEFINE o == ao[a]
<1>1. o.at = "loop" /\ a \notin asleep /\ o.command # "NONE" /\ ThreadUnchanged
  BY DEF TaskCommand, At
<1>2. /\ Fine(a, o, Left, Now, Len(pipe), pushed, exists, FALSE) /\ o \in Records /\ Local(a, o)
      /\ Data(a, o, Left, Len(pipe), pushed, exists)
  BY <1>1, AwakeFacts
<1>3. Context(Left, Now, Len(pipe), pushed, exists)
  BY InvContext
<1>4. /\ o.command \in Commands /\ o.open \in BOOLEAN /\ o.really \in BOOLEAN
      /\ o.source \in {"CLOSED", "OPEN", "FLUSHED"}
  BY <1>2 DEF Records
<1>5. ~o.inloop /\ (o.open => o.really /\ o.source # "CLOSED")
      /\ (~o.open => o.source = "CLOSED" /\ o.chunk = 0 /\ o.current = 0 /\ o.last = 0)
  BY <1>1, <1>2 DEF Local
<1>6. ASSUME ~o.open, Set(a, Finished(o)) PROVE Inv'
  <2>. DEFINE x == Finished(o)
  <2>1. /\ x \in Records /\ x.at = "loop" /\ x.command = "NONE" /\ x.open = o.open
        /\ x.source = o.source /\ x.chunk = o.chunk /\ x.current = o.current /\ x.last = o.last
        /\ x.allow = o.allow /\ x.pipe = o.pipe /\ x.inloop = o.inloop
    BY <1>2, FinishedFacts
  <2>2. Set(a, x)
    BY <1>6
  <2>. HIDE DEF x
  <2>. QED
    BY <1>1, <1>5, <1>6, <2>1, <2>2, StaysShut
<1>7. ASSUME o.open, NEW y \in {o, [o EXCEPT !.caught = FALSE]}, NEW t \in {"disable", "finish"},
             t = "disable" => o.command \in {"DISABLE", "KILL"}, Set(a, Close(y, t))
      PROVE  Inv'
  <2>1. /\ y \in Records
        /\ y.command = o.command /\ y.source = o.source /\ y.really = o.really /\ y.allow = o.allow
        /\ y.inloop = o.inloop /\ y.chunk = o.chunk /\ y.current \in {0, o.current} /\ y.last = o.last
        /\ y.pipe = o.pipe
    BY <1>2, <1>7, ZenonT(60) DEF Records
  <2>2. Fine(a, Close(y, t), Left, Now, Len(pipe), pushed, exists, FALSE)
    <3>. HIDE DEF o
    <3>1. t \in {"disable", "finish", "endPause", "notify", "failed"} /\ o.at # "closing"
      BY <1>1, <1>7
    <3>. QED
      BY <1>2, <1>3, <1>5, <1>7, <2>1, <3>1, CloseFine
  <2>. QED
    BY <1>1, <1>7, <2>2, GoKeeps
<1>8. CASE o.command = "ENABLE"
  <2>1. CASE o.really
    <3>1. Set(a, Finished(o))
      BY <1>8, <2>1 DEF TaskCommand, Go
    <3>2. Fine(a, Finished(o), Left, Now, Len(pipe), pushed, exists, FALSE)
      BY <1>1, <1>2, <1>3, <1>8, <2>1, FinishFine
    <3>. QED
      BY <1>1, <3>1, <3>2, GoKeeps
  <2>2. CASE ~o.really
    <3>1. Set(a, [o EXCEPT !.at = "enabling"])
      BY <1>8, <2>2 DEF TaskCommand, Go
    <3>2. Fine(a, [o EXCEPT !.at = "enabling"], Left, Now, Len(pipe), pushed, exists, FALSE)
      BY <1>1, <1>2, <1>3, <1>8, <2>2, EnablingFine
    <3>. QED
      BY <1>1, <3>1, <3>2, GoKeeps
  <2>. QED
    BY <2>1, <2>2
<1>9. CASE o.command \in {"DISABLE", "KILL"}
  <2>1. CASE ~o.really
    <3>. DEFINE x == [o EXCEPT !.at = "disabled"]
    <3>1. Set(a, x)
      BY <1>9, <2>1 DEF TaskCommand, Go
    <3>2. /\ x \in Records /\ x.at = "disabled" /\ x.command = o.command /\ x.open = o.open
          /\ x.source = o.source /\ x.chunk = o.chunk /\ x.current = o.current /\ x.last = o.last
          /\ x.allow = o.allow /\ x.pipe = o.pipe /\ x.inloop = o.inloop /\ x.really = o.really
      BY <1>2 DEF Records, Places
    <3>. HIDE DEF x
    <3>3. ~o.open
      BY <1>5, <2>1
    <3>. QED
      BY <1>1, <1>5, <1>9, <2>1, <3>1, <3>2, <3>3, StaysShut
  <2>2. CASE o.really /\ o.open
    <3>1. Set(a, Close(o, "disable"))
      BY <1>9, <2>2 DEF TaskCommand, Go
    <3>. QED
      BY <1>7, <1>9, <2>2, <3>1
  <2>3. CASE o.really /\ ~o.open
    <3>. DEFINE x == [o EXCEPT !.really = FALSE, !.at = "disabling"]
    <3>1. Set(a, x)
      BY <1>9, <2>3 DEF TaskCommand, Go
    <3>2. /\ x \in Records /\ x.at = "disabling" /\ x.command = o.command /\ x.open = o.open
          /\ x.source = o.source /\ x.chunk = o.chunk /\ x.current = o.current /\ x.last = o.last
          /\ x.allow = o.allow /\ x.pipe = o.pipe /\ x.inloop = o.inloop /\ ~x.really
      BY <1>2 DEF Records, Places
    <3>. HIDE DEF x
    <3>. QED
      BY <1>1, <1>5, <1>9, <2>3, <3>1, <3>2, StaysShut
  <2>. QED
    BY <2>1, <2>2, <2>3
<1>10. CASE o.command = "OPEN"
  <2>. DEFINE x == [o EXCEPT !.reopen = FALSE, !.failed = FALSE, !.caught = FALSE,
                             !.interrupt = FALSE, !.at = "opening"]
  <2>1. Set(a, x)
    BY <1>10 DEF TaskCommand, Go
  <2>2. Fine(a, x, Left, Now, Len(pipe), pushed, exists, FALSE)
    BY <1>1, <1>2, <1>3, <1>10, OpeningFine
  <2>. HIDE DEF x
  <2>. QED
    BY <1>1, <2>1, <2>2, GoKeeps
<1>11. CASE o.command = "CLOSE"
  <2>1. CASE o.open
    <3>1. Set(a, Close(o, "finish"))
      BY <1>11, <2>1 DEF TaskCommand, Go
    <3>. QED
      BY <1>7, <1>11, <2>1, <3>1
  <2>2. CASE ~o.open
    <3>1. Set(a, Finished(o))
      BY <1>11, <2>2 DEF TaskCommand, Go
    <3>. QED
      BY <1>6, <2>2, <3>1
  <2>. QED
    BY <2>1, <2>2
<1>12. CASE o.command \in {"PAUSE", "RELEASE"} /\ ~o.open
  <2>1. Set(a, Finished(o))
    BY <1>12 DEF TaskCommand, Go
  <2>. QED
    BY <1>6, <1>12, <2>1
<1>13. CASE o.command = "RELEASE" /\ o.open /\ a \notin AlwaysOn
  <2>1. Set(a, Close([o EXCEPT !.caught = FALSE], "finish"))
    BY <1>13 DEF TaskCommand, Go
  <2>. QED
    BY <1>7, <1>13, <2>1
<1>14. CASE o.open /\ (o.command = "PAUSE" \/ (o.command = "RELEASE" /\ a \in AlwaysOn))
  <2>. DEFINE p == [o EXCEPT !.caught = FALSE, !.interrupt = FALSE, !.at = "pausing"]
  <2>1. Set(a, CASE o.command = "RELEASE" /\ o.source = "OPEN" -> SourceCancel(p)
                 [] o.command = "RELEASE" /\ o.source # "OPEN" -> [p EXCEPT !.last = 0]
                 [] OTHER -> p)
    BY <1>14 DEF TaskCommand, Go
  <2>2. CASE o.command = "RELEASE"
    <3>1. Set(a, SourceCancel(p)) \/ (o.source # "OPEN" /\ Set(a, [p EXCEPT !.last = 0]))
      BY <2>1, <2>2
    <3>2. o.source # "OPEN" => [p EXCEPT !.last = 0] = SourceCancel(p)
      <4>1. p \in Records /\ p.chunk = o.chunk /\ p.current = o.current
        BY <1>2 DEF Records, Places
      <4>2. o.source # "OPEN" => o.chunk = 0 /\ o.current = 0
        BY <1>2, <1>14 DEF Data
      <4>. HIDE DEF p
      <4>. QED
        BY <4>1, <4>2, FlushedCancel
    <3>3. Fine(a, SourceCancel(p), Left, Now, Len(pipe), pushed, exists, FALSE)
      BY <1>1, <1>2, <1>3, <1>14, <2>2, ReleasingFine
    <3>. HIDE DEF p
    <3>. QED
      BY <1>1, <3>1, <3>2, <3>3, GoKeeps
  <2>3. CASE o.command # "RELEASE"
    <3>1. Set(a, p)
      BY <2>1, <2>3
    <3>2. Fine(a, p, Left, Now, Len(pipe), pushed, exists, FALSE)
      BY <1>1, <1>2, <1>3, <1>14, <2>3, PausingFine
    <3>. HIDE DEF p
    <3>. QED
      BY <1>1, <3>1, <3>2, GoKeeps
  <2>. QED
    BY <2>2, <2>3
<1>15. CASE o.command = "DRAIN"
  <2>1. CASE o.open
    <3>. DEFINE x == [o EXCEPT !.source = "FLUSHED", !.reopen = TRUE, !.at = "draining",
                               !.filter = IF @ = "open" THEN "stale" ELSE @]
    <3>1. Set(a, x)
      BY <1>15, <2>1 DEF TaskCommand, Go
    <3>2. Fine(a, x, Left, Now, Len(pipe), pushed, exists, FALSE)
      BY <1>1, <1>2, <1>3, <1>15, <2>1, DrainingFine
    <3>. HIDE DEF x
    <3>. QED
      BY <1>1, <3>1, <3>2, GoKeeps
  <2>2. CASE ~o.open
    <3>1. Set(a, Finished(o))
      BY <1>15, <2>2 DEF TaskCommand, Go
    <3>. QED
      BY <1>6, <2>2, <3>1
  <2>. QED
    BY <2>1, <2>2
<1>16. CASE o.command = "CANCEL"
  <2>. DEFINE p == [o EXCEPT !.caught = FALSE, !.interrupt = FALSE,
                             !.at = IF o.open THEN "cancelling" ELSE "loop",
                             !.command = IF o.open THEN @ ELSE "NONE"]
              q == [o EXCEPT !.caught = FALSE, !.interrupt = FALSE, !.at = "cancelling"]
  <2>1. Set(a, IF o.source = "OPEN" THEN SourceCancel(p) ELSE [p EXCEPT !.last = 0])
    BY <1>16 DEF TaskCommand, Go
  <2>2. CASE o.open
    <3>1. p = q
      BY <1>2, <2>2 DEF Records
    <3>2. Set(a, SourceCancel(q)) \/ (o.source # "OPEN" /\ Set(a, [q EXCEPT !.last = 0]))
      BY <2>1, <3>1
    <3>3. o.source # "OPEN" => [q EXCEPT !.last = 0] = SourceCancel(q)
      <4>1. q \in Records /\ q.chunk = o.chunk /\ q.current = o.current
        BY <1>2 DEF Records, Places
      <4>2. o.source # "OPEN" => o.chunk = 0 /\ o.current = 0
        BY <1>2, <2>2 DEF Data
      <4>. HIDE DEF q
      <4>. QED
        BY <4>1, <4>2, FlushedCancel
    <3>4. Fine(a, SourceCancel(q), Left, Now, Len(pipe), pushed, exists, FALSE)
      BY <1>1, <1>2, <1>3, <1>16, <2>2, CancelledFine
    <3>. HIDE DEF q
    <3>. QED
      BY <1>1, <3>2, <3>3, <3>4, GoKeeps
  <2>3. CASE ~o.open
    <3>1. Set(a, [p EXCEPT !.last = 0])
      BY <1>5, <2>1, <2>3
    <3>. DEFINE x == [o EXCEPT !.caught = FALSE, !.interrupt = FALSE, !.at = "loop", !.command = "NONE",
                               !.last = 0]
    <3>2. [p EXCEPT !.last = 0] = x
      BY <1>2, <2>3 DEF Records
    <3>3. /\ x \in Records /\ x.at = "loop" /\ x.command = "NONE" /\ x.open = o.open
          /\ x.source = o.source /\ x.chunk = o.chunk /\ x.current = o.current /\ x.last = 0
          /\ x.allow = o.allow /\ x.pipe = o.pipe /\ x.inloop = o.inloop
      BY <1>2, Values, Zenon DEF Records
    <3>. HIDE DEF p, x
    <3>. QED
      BY <1>1, <1>5, <2>3, <3>1, <3>2, <3>3, StaysShut
  <2>. QED
    BY <2>2, <2>3
<1>. QED
  BY <1>1, <1>4, <1>8, <1>9, <1>10, <1>11, <1>12, <1>13, <1>14, <1>15, <1>16 DEF Commands

\* InternalEnable()
LEMMA EnabledKeeps ==
  ASSUME Inv, NEW a \in Outputs, Enabled(a)
  PROVE  Inv'
<1>. DEFINE o == ao[a]
<1>1. o.at = "enabling" /\ a \notin asleep /\ ThreadUnchanged
  BY DEF Enabled, At
<1>2. o \in Records /\ Local(a, o)
  BY <1>1, AwakeFacts
<1>3. PICK y \in {[o EXCEPT !.really = TRUE], [o EXCEPT !.failed = TRUE]} : Set(a, Finished(y))
  BY Zenon DEF Enabled, Go, Fault
<1>4. ~o.open /\ ~o.inloop /\ o.source = "CLOSED" /\ o.chunk = 0 /\ o.current = 0 /\ o.last = 0
  BY <1>1, <1>2 DEF Local
<1>5. /\ y \in Records /\ y.open = o.open /\ y.source = o.source /\ y.chunk = o.chunk
      /\ y.current = o.current /\ y.last = o.last /\ y.allow = o.allow /\ y.pipe = o.pipe
      /\ y.inloop = o.inloop
  BY <1>2, <1>3, ZenonT(60) DEF Records
<1>. DEFINE x == Finished(y)
<1>6. /\ x \in Records /\ x.at = "loop" /\ x.command = "NONE" /\ x.open = y.open /\ x.source = y.source
      /\ x.chunk = y.chunk /\ x.current = y.current /\ x.last = y.last /\ x.allow = y.allow
      /\ x.pipe = y.pipe /\ x.inloop = y.inloop
  BY <1>5, FinishedFacts
<1>7. Set(a, x)
  BY <1>3
<1>. HIDE DEF x
<1>. QED
  BY <1>1, <1>4, <1>5, <1>6, <1>7, StaysShut

\* InternalDisable(), and the end of the thread
LEMMA DisabledKeeps ==
  ASSUME Inv, NEW a \in Outputs, Disabled(a)
  PROVE  Inv'
<1>. DEFINE o == ao[a]
            p == IF o.source = "OPEN" THEN SourceCancel(o) ELSE o
            r == [o EXCEPT !.command = "NONE", !.at = "loop", !.then = ""]
            q == [o EXCEPT !.command = "NONE", !.at = "done", !.then = ""]
<1>1. o.at \in {"disabling", "disabled"} /\ a \notin asleep /\ ThreadUnchanged
  BY DEF Disabled, At
<1>2. o \in Records /\ Local(a, o)
  BY <1>1, AwakeFacts
<1>3. ~o.open /\ ~o.inloop /\ o.source = "CLOSED" /\ o.chunk = 0 /\ o.current = 0 /\ o.last = 0
  BY <1>1, <1>2 DEF Local
<1>4. PICK x \in {r, q} : Set(a, x)
  <2>1. Set(a, Finished(o)) \/ Set(a, [Finished(p) EXCEPT !.at = "done"])
    BY DEF Disabled, Go
  <2>2. p = o
    BY <1>3
  <2>3. Finished(o) = r /\ [r EXCEPT !.at = "done"] = q
    BY <1>2 DEF Finished, Records
  <2>. QED
    BY <2>1, <2>2, <2>3
<1>5. /\ x \in Records /\ x.at \in {"loop", "done"} /\ x.command = "NONE" /\ x.open = o.open
      /\ x.source = o.source /\ x.chunk = o.chunk /\ x.current = o.current /\ x.last = o.last
      /\ x.allow = o.allow /\ x.pipe = o.pipe /\ x.inloop = o.inloop
  <2>1. r \in Records /\ q \in Records
    <3>1. r \in Records
      BY <1>2, Values, Zenon DEF Records
    <3>2. q \in Records
      BY <1>2, Values, Zenon DEF Records
    <3>. QED
      BY <3>1, <3>2
  <2>2. /\ r.at = "loop" /\ r.command = "NONE" /\ r.open = o.open
        /\ r.source = o.source /\ r.chunk = o.chunk /\ r.current = o.current /\ r.last = o.last
        /\ r.allow = o.allow /\ r.pipe = o.pipe /\ r.inloop = o.inloop
    BY <1>2 DEF Records
  <2>3. /\ q.at = "done" /\ q.command = "NONE" /\ q.open = o.open
        /\ q.source = o.source /\ q.chunk = o.chunk /\ q.current = o.current /\ q.last = o.last
        /\ q.allow = o.allow /\ q.pipe = o.pipe /\ q.inloop = o.inloop
    BY <1>2 DEF Records
  <2>. HIDE DEF r, q, o
  <2>. QED
    BY <1>4, <2>1, <2>2, <2>3
<1>. QED
  BY <1>1, <1>3, <1>4, <1>5, StaysShut

\* A command OPEN is sent while the pipe exists.
LEMMA OpeningExists ==
  ASSUME Inv, NEW a \in Outputs, ao[a].command = "OPEN"
  PROVE  exists
<1>1. Expected(a, ao[a], Left, Now) /\ Now \subseteq Left
  BY DEF Inv, FineNow, Fine, Program
<1>2. Step("updated", a) \in Left
  BY <1>1 DEF Expected
<1>. QED
  BY <1>2, StepFacts DEF Inv, PlayerInv

\* InternalOpen()
LEMMA InternalOpenKeeps ==
  ASSUME Inv, NEW a \in Outputs, InternalOpen(a)
  PROVE  Inv'
<1>. DEFINE o == ao[a]
            kept == [o EXCEPT !.source = "OPEN", !.filter = "open", !.pipe = "live", !.open = TRUE,
                              !.command = "NONE", !.at = "loop", !.then = ""]
            new == [o EXCEPT !.source = "OPEN", !.filter = "open", !.pipe = "live", !.open = TRUE, !.chunk = 0,
                             !.current = 0, !.last = 0, !.command = "NONE", !.at = "loop", !.then = ""]
            none == [o EXCEPT !.open = FALSE, !.source = "CLOSED", !.filter = "null", !.pipe = "live",
                              !.failed = TRUE, !.command = "NONE",
                              !.at = "loop", !.then = "", !.chunk = 0, !.current = 0, !.last = 0]
            lost == [o EXCEPT !.filter = "null", !.pipe = "live", !.failed = TRUE, !.command = "NONE",
                              !.at = "loop", !.then = ""]
            gone == [o EXCEPT !.filter = "null", !.pipe = "live", !.failed = TRUE, !.command = "NONE",
                              !.at = "loop", !.then = "", !.chunk = 0, !.current = 0, !.last = 0]
<1>1. o.at = "opening" /\ a \notin asleep /\ ThreadUnchanged
  BY DEF InternalOpen, At
<1>2. /\ Fine(a, o, Left, Now, Len(pipe), pushed, exists, FALSE) /\ o \in Records /\ Local(a, o)
  BY <1>1, AwakeFacts
<1>3. Context(Left, Now, Len(pipe), pushed, exists)
  BY InvContext
<1>4. o.command = "OPEN" /\ ~o.inloop /\ exists
  BY <1>1, <1>2, OpeningExists DEF Local
<1>5. \/ \E same \in BOOLEAN : Set(a, Finished([SourceOpen(o, same) EXCEPT !.open = TRUE]))
      \/ Set(a, lost) \/ Set(a, gone) \/ Set(a, none)
  <2>. DEFINE shut == [o EXCEPT !.open = FALSE, !.source = "CLOSED", !.filter = "null",
                                !.pipe = "live", !.failed = TRUE]
  <2>1. PICK same \in BOOLEAN :
          \/ Set(a, Finished([SourceOpen(o, same) EXCEPT !.open = TRUE]))
          \/ Set(a, Finished([SourceFails(o, same) EXCEPT !.failed = TRUE]))
          \/ Set(a, SourceCancel(Finished(shut)))
    BY Zenon DEF InternalOpen, Go, Fault
  <2>2. SourceCancel(Finished(shut)) = none
    BY <1>2 DEF SourceCancel, Finished, Records
  <2>3. Finished([SourceFails(o, same) EXCEPT !.failed = TRUE]) \in {lost, gone}
    <3>. DEFINE p == [o EXCEPT !.filter = "null", !.pipe = "live"]
    <3>1. SourceFails(o, same) \in {p, SourceCancel(p)}
      BY DEF SourceFails
    <3>2. Finished([p EXCEPT !.failed = TRUE]) = lost
      BY <1>2 DEF Finished, Records
    <3>3. Finished([SourceCancel(p) EXCEPT !.failed = TRUE]) = gone
      BY <1>2 DEF Finished, SourceCancel, Records
    <3>. HIDE DEF p, lost, gone
    <3>. QED
      BY <3>1, <3>2, <3>3
  <2>. HIDE DEF none, lost, gone, shut, o
  <2>. QED
    BY <2>1, <2>2, <2>3
<1>6. ASSUME NEW same \in BOOLEAN, Set(a, Finished([SourceOpen(o, same) EXCEPT !.open = TRUE]))
      PROVE  Inv'
  <2>1. CASE o.source # "CLOSED" /\ same
    <3>1. Finished([SourceOpen(o, same) EXCEPT !.open = TRUE]) = kept
      <4>1. SourceOpen(o, same) = [o EXCEPT !.source = "OPEN", !.filter = "open", !.pipe = "live"]
        BY <2>1 DEF SourceOpen
      <4>. QED
        BY <1>2, <4>1 DEF Finished, Records
    <3>2. Fine(a, kept, Left, Now, Len(pipe), pushed, exists, FALSE)
      BY <1>1, <1>2, <1>3, <1>4, <2>1, ReopenedFine
    <3>. HIDE DEF kept
    <3>. QED
      BY <1>1, <1>6, <3>1, <3>2, GoKeeps
  <2>2. CASE ~(o.source # "CLOSED" /\ same)
    <3>1. Finished([SourceOpen(o, same) EXCEPT !.open = TRUE]) = new
      <4>1. SourceOpen(o, same) = SourceCancel([o EXCEPT !.source = "OPEN", !.filter = "open", !.pipe = "live"])
        BY <2>2 DEF SourceOpen
      <4>. QED
        BY <1>2, <4>1 DEF SourceCancel, Finished, Records
    <3>2. Fine(a, new, Left, Now, Len(pipe), pushed, exists, FALSE)
      BY <1>1, <1>2, <1>3, <1>4, OpenedFine
    <3>. HIDE DEF new
    <3>. QED
      BY <1>1, <1>6, <3>1, <3>2, GoKeeps
  <2>. QED
    BY <2>1, <2>2
<1>7. CASE Set(a, none)
  <2>1. /\ none \in Records /\ none.at = "loop" /\ none.command = "NONE" /\ ~none.open
        /\ none.source = "CLOSED" /\ none.chunk = 0 /\ none.current = 0 /\ none.last = 0
        /\ none.allow = o.allow /\ none.pipe = "live" /\ none.inloop = o.inloop
    <3>1. none \in Records
      BY <1>2, Values, Zenon DEF Records
    <3>2. /\ none.at = "loop" /\ none.command = "NONE" /\ ~none.open
          /\ none.source = "CLOSED" /\ none.chunk = 0 /\ none.current = 0 /\ none.last = 0
          /\ none.allow = o.allow /\ none.pipe = "live" /\ none.inloop = o.inloop
      BY <1>2, Zenon DEF Records
    <3>. QED
      BY <3>1, <3>2
  <2>. HIDE DEF none
  <2>. QED
    BY <1>1, <1>4, <1>7, <2>1, StaysShut
<1>8. ASSUME NEW x \in {lost, gone}, Set(a, x) PROVE Inv'
  <2>1. lost \in Records /\ gone \in Records
    <3>1. lost \in Records
      BY <1>2, Values, Zenon DEF Records
    <3>2. gone \in Records
      BY <1>2, Values, Zenon DEF Records
    <3>. QED
      BY <3>1, <3>2
  <2>2. /\ lost.at = "loop" /\ lost.command = "NONE" /\ lost.open = o.open
        /\ lost.source = o.source /\ lost.really = o.really /\ lost.allow = o.allow
        /\ lost.reopen = o.reopen /\ lost.interrupt = o.interrupt /\ lost.caught = o.caught
        /\ lost.inloop = o.inloop /\ lost.filter = "null" /\ lost.pipe = "live"
        /\ lost.chunk = o.chunk /\ lost.consumed = o.consumed /\ lost.current = o.current
        /\ lost.last = o.last
    BY <1>2 DEF Records
  <2>3. /\ gone.at = "loop" /\ gone.command = "NONE" /\ gone.open = o.open
        /\ gone.source = o.source /\ gone.really = o.really /\ gone.allow = o.allow
        /\ gone.reopen = o.reopen /\ gone.interrupt = o.interrupt /\ gone.caught = o.caught
        /\ gone.inloop = o.inloop /\ gone.filter = "null" /\ gone.pipe = "live"
        /\ gone.chunk = 0 /\ gone.current = 0 /\ gone.last = 0
    BY <1>2 DEF Records
  <2>. HIDE DEF lost, gone, o
  <2>4. Fine(a, lost, Left, Now, Len(pipe), pushed, exists, FALSE)
    BY <1>1, <1>2, <1>3, <1>4, <2>1, <2>2, LostFine
  <2>5. Fine(a, gone, Left, Now, Len(pipe), pushed, exists, FALSE)
    BY <1>1, <1>2, <1>3, <1>4, <2>1, <2>3, LostFine
  <2>. QED
    BY <1>1, <1>8, <2>4, <2>5, GoKeeps
<1>. HIDE DEF none, lost, gone
<1>. QED
  BY <1>5, <1>6, <1>7, <1>8

\* InternalPause(): the device pauses,
LEMMA BeginPauseKeeps ==
  ASSUME Inv, NEW a \in Outputs, BeginPause(a)
  PROVE  Inv'
<1>. DEFINE o == ao[a]
            x == [o EXCEPT !.pause = TRUE, !.command = "NONE", !.at = "paused"]
<1>1. o.at = "pausing" /\ a \notin asleep /\ ThreadUnchanged /\ Set(a, x)
  BY Zenon DEF BeginPause, At, Go
<1>2. Fine(a, x, Left, Now, Len(pipe), pushed, exists, FALSE)
  BY <1>1, AwakeFacts, InvContext, BeginPauseFine
<1>. HIDE DEF x
<1>. QED
  BY <1>1, <1>2, GoKeeps

\* until the next command or a failure.
LEMMA IteratePauseKeeps ==
  ASSUME Inv, NEW a \in Outputs, IteratePause(a)
  PROVE  Inv'
<1>. DEFINE o == ao[a]
            x == [o EXCEPT !.pause = FALSE, !.at = "loop"]
<1>1. o.at = "paused" /\ a \notin asleep /\ ThreadUnchanged
  BY DEF IteratePause, At
<1>2. /\ Fine(a, o, Left, Now, Len(pipe), pushed, exists, FALSE) /\ o \in Records /\ Local(a, o)
  BY <1>1, AwakeFacts
<1>3. Context(Left, Now, Len(pipe), pushed, exists)
  BY InvContext
<1>4. (o.command # "NONE" /\ Set(a, x)) \/ Set(a, Close(o, "endPause"))
  BY Zenon DEF IteratePause, Go, Fault
<1>5. CASE o.command # "NONE" /\ Set(a, x)
  <2>1. Fine(a, x, Left, Now, Len(pipe), pushed, exists, FALSE)
    BY <1>1, <1>2, <1>3, <1>5, EndPauseFine
  <2>. HIDE DEF x
  <2>. QED
    BY <1>1, <1>5, <2>1, GoKeeps
<1>6. CASE Set(a, Close(o, "endPause"))
  <2>1. ~o.inloop
    BY <1>1, <1>2 DEF Local
  <2>2. Fine(a, Close(o, "endPause"), Left, Now, Len(pipe), pushed, exists, FALSE)
    BY <1>1, <1>2, <1>3, <2>1, CloseFine
  <2>. QED
    BY <1>1, <1>6, <2>2, GoKeeps
<1>. QED
  BY <1>4, <1>5, <1>6

\* InternalDrain()
LEMMA DrainedKeeps ==
  ASSUME Inv, NEW a \in Outputs, Drained(a)
  PROVE  Inv'
<1>. DEFINE o == ao[a]
            y == [o EXCEPT !.failed = TRUE]
<1>1. o.at = "draining" /\ a \notin asleep /\ ThreadUnchanged
  BY DEF Drained, At
<1>2. /\ Fine(a, o, Left, Now, Len(pipe), pushed, exists, FALSE) /\ o \in Records /\ Local(a, o)
  BY <1>1, AwakeFacts
<1>3. Context(Left, Now, Len(pipe), pushed, exists)
  BY InvContext
<1>4. Set(a, Finished(o)) \/ Set(a, CloseError(o, "finish"))
  BY Zenon DEF Drained, Go, Fault
<1>5. CASE Set(a, Finished(o))
  <2>1. Fine(a, Finished(o), Left, Now, Len(pipe), pushed, exists, FALSE)
    BY <1>1, <1>2, <1>3, FinishFine
  <2>. QED
    BY <1>1, <1>5, <2>1, GoKeeps
<1>6. CASE Set(a, CloseError(o, "finish"))
  <2>1. ~o.inloop
    BY <1>1, <1>2 DEF Local
  <2>2. /\ y \in Records
        /\ y.command = o.command /\ y.source = o.source /\ y.really = o.really /\ y.allow = o.allow
        /\ y.inloop = o.inloop /\ y.chunk = o.chunk /\ y.current \in {0, o.current} /\ y.last = o.last
        /\ y.pipe = o.pipe
    BY <1>2 DEF Records
  <2>3. CloseError(o, "finish") = Close(y, "finish")
    BY DEF CloseError
  <2>. HIDE DEF y, o
  <2>4. Fine(a, Close(y, "finish"), Left, Now, Len(pipe), pushed, exists, FALSE)
    BY <1>1, <1>2, <1>3, <2>1, <2>2, CloseFine
  <2>. QED
    BY <1>1, <1>6, <2>3, <2>4, GoKeeps
<1>. QED
  BY <1>4, <1>5, <1>6

\* The CANCEL command
LEMMA CancelledKeeps ==
  ASSUME Inv, NEW a \in Outputs, Cancelled(a)
  PROVE  Inv'
<1>. DEFINE o == ao[a]
<1>1. o.at = "cancelling" /\ a \notin asleep /\ ThreadUnchanged /\ Set(a, Finished(o))
  BY Zenon DEF Cancelled, At, Go
<1>2. Fine(a, Finished(o), Left, Now, Len(pipe), pushed, exists, FALSE)
  BY <1>1, AwakeFacts, InvContext, FinishFine
<1>. QED
  BY <1>1, <1>2, GoKeeps

\* Every step of an output thread keeps the invariant.
LEMMA TaskKeeps ==
  ASSUME Inv, NEW a \in Outputs, Task(a)
  PROVE  Inv'
  BY TaskPlaysKeeps, FilterKeeps, DevicePlaysKeeps, ChunksConsumedKeeps, ClosedKeeps,
     FailedWakesKeeps, TaskCommandKeeps, EnabledKeeps, DisabledKeeps, InternalOpenKeeps,
     BeginPauseKeeps, IteratePauseKeeps, DrainedKeeps, CancelledKeeps DEF Task

----------------------------------------------------------------------------
(***************************************************************************)
(* The list of steps.                                                      *)
(***************************************************************************)

\* The first step, and the others
LEMMA RestFacts ==
  ASSUME NEW t, Sorted(t), t # << >>
  PROVE  /\ Head(t) \in Steps(t) /\ Head(t) \in AllSteps /\ First(t) = {Head(t)}
         /\ Sorted(Tail(t)) /\ Steps(Tail(t)) = Steps(t) \ {Head(t)}
         /\ First(Tail(t)) \subseteq Steps(Tail(t))
         /\ \A s \in Steps(t) : Rank(Head(t).do) <= Rank(s.do)
<1>1. t \in Seq(AllSteps)
  BY DEF Sorted
<1>2. /\ Head(t) \in AllSteps /\ 1 \in DOMAIN t /\ Head(t) = t[1]
      /\ Tail(t) \in Seq(AllSteps) /\ Len(Tail(t)) = Len(t) - 1 /\ Len(t) \in Nat
      /\ DOMAIN t = 1..Len(t) /\ DOMAIN Tail(t) = 1..(Len(t) - 1)
      /\ \A i \in 1..(Len(t) - 1) : Tail(t)[i] = t[i + 1]
  BY <1>1, HeadTailProperties, LenProperties, EmptySeq
<1>3. \A i, j \in DOMAIN t : i < j => t[i] # t[j] /\ Rank(t[i].do) <= Rank(t[j].do)
  BY DEF Sorted
<1>4. Sorted(Tail(t))
  <2>1. ASSUME NEW i \in DOMAIN Tail(t), NEW j \in DOMAIN Tail(t), i < j
        PROVE  Tail(t)[i] # Tail(t)[j] /\ Rank(Tail(t)[i].do) <= Rank(Tail(t)[j].do)
    <3>1. i + 1 \in DOMAIN t /\ j + 1 \in DOMAIN t /\ i + 1 < j + 1
          /\ Tail(t)[i] = t[i + 1] /\ Tail(t)[j] = t[j + 1]
      BY <1>2, <2>1
    <3>. QED
      BY <1>3, <3>1
  <2>. QED
    BY <1>2, <2>1 DEF Sorted
<1>5. Steps(Tail(t)) \subseteq Steps(t) \ {Head(t)}
  <2>1. ASSUME NEW i \in DOMAIN Tail(t) PROVE Tail(t)[i] \in Steps(t) \ {Head(t)}
    <3>1. i + 1 \in DOMAIN t /\ 1 < i + 1 /\ Tail(t)[i] = t[i + 1]
      BY <1>2, <2>1
    <3>. QED
      BY <1>2, <1>3, <3>1 DEF Steps
  <2>. QED
    BY <2>1 DEF Steps
<1>6. Steps(t) \ {Head(t)} \subseteq Steps(Tail(t))
  <2>1. ASSUME NEW i \in DOMAIN t, t[i] # Head(t) PROVE t[i] \in Steps(Tail(t))
    <3>1. i # 1
      BY <1>2, <2>1
    <3>2. i - 1 \in DOMAIN Tail(t) /\ Tail(t)[i - 1] = t[i]
      BY <1>2, <3>1
    <3>. QED
      BY <3>2 DEF Steps
  <2>. QED
    BY <2>1 DEF Steps
<1>7. \A s \in Steps(t) : s # Head(t) => Rank(Head(t).do) <= Rank(s.do)
  <2>1. ASSUME NEW i \in DOMAIN t, t[i] # Head(t) PROVE Rank(Head(t).do) <= Rank(t[i].do)
    <3>1. 1 < i
      BY <1>2, <2>1
    <3>. QED
      BY <1>2, <1>3, <3>1
  <2>. QED
    BY <2>1 DEF Steps
<1>8. First(Tail(t)) \subseteq Steps(Tail(t))
  <2>1. CASE Tail(t) = << >>
    BY <2>1 DEF First
  <2>2. CASE Tail(t) # << >>
    <3>1. 1 \in DOMAIN Tail(t) /\ Head(Tail(t)) = Tail(t)[1]
      BY <1>2, <2>2, HeadTailProperties, LenProperties, EmptySeq
    <3>. QED
      BY <2>2, <3>1 DEF First, Steps
  <2>. QED
    BY <2>1, <2>2
<1>9. Rank(Head(t).do) \in Nat
  BY DEF Rank
<1>10. Head(t) \in Steps(t) /\ First(t) = {Head(t)}
  BY <1>2 DEF Steps, First
<1>. QED
  BY <1>2, <1>4, <1>5, <1>6, <1>7, <1>8, <1>9, <1>10

\* One list after the other
LEMMA JoinFacts ==
  ASSUME NEW x, NEW y, Sorted(x), Sorted(y),
         \A s \in Steps(x), u \in Steps(y) : s # u /\ Rank(s.do) <= Rank(u.do)
  PROVE  Sorted(x \o y) /\ Steps(x \o y) = Steps(x) \cup Steps(y)
<1>1. x \in Seq(AllSteps) /\ y \in Seq(AllSteps)
  BY DEF Sorted
<1>2. /\ x \o y \in Seq(AllSteps) /\ Len(x) \in Nat /\ Len(y) \in Nat
      /\ DOMAIN x = 1..Len(x) /\ DOMAIN y = 1..Len(y) /\ DOMAIN (x \o y) = 1..(Len(x) + Len(y))
      /\ \A i \in DOMAIN (x \o y) : (x \o y)[i] = IF i <= Len(x) THEN x[i] ELSE y[i - Len(x)]
  BY <1>1, ConcatProperties, LenProperties
<1>3. /\ \A i, j \in DOMAIN x : i < j => x[i] # x[j] /\ Rank(x[i].do) <= Rank(x[j].do)
      /\ \A i, j \in DOMAIN y : i < j => y[i] # y[j] /\ Rank(y[i].do) <= Rank(y[j].do)
  BY DEF Sorted
<1>4. \A i \in DOMAIN x, j \in DOMAIN y : x[i] # y[j] /\ Rank(x[i].do) <= Rank(y[j].do)
  BY DEF Steps
<1>. DEFINE z == x \o y
<1>5. z \in Seq(AllSteps)
  BY <1>2
<1>6. ASSUME NEW i \in DOMAIN z
      PROVE  (i \in DOMAIN x /\ z[i] = x[i]) \/ (i - Len(x) \in DOMAIN y /\ z[i] = y[i - Len(x)] /\ i > Len(x))
  BY <1>2
<1>7. /\ \A i \in DOMAIN x : i \in DOMAIN z /\ z[i] = x[i]
      /\ \A i \in DOMAIN y : i + Len(x) \in DOMAIN z /\ z[i + Len(x)] = y[i]
  <2>1. \A i \in DOMAIN x : i \in DOMAIN z /\ z[i] = x[i]
    BY <1>2
  <2>2. ASSUME NEW i \in DOMAIN y PROVE i + Len(x) \in DOMAIN z /\ z[i + Len(x)] = y[i]
    <3>1. i + Len(x) \in DOMAIN z /\ ~(i + Len(x) <= Len(x)) /\ i + Len(x) - Len(x) = i
      BY <1>2
    <3>. QED
      BY <1>2, <3>1
  <2>. QED
    BY <2>1, <2>2
<1>8. DOMAIN z \subseteq Nat /\ DOMAIN x = 1..Len(x) /\ Len(x) \in Nat
  BY <1>2
<1>. HIDE DEF z
<1>9. ASSUME NEW i \in DOMAIN z, NEW j \in DOMAIN z, i < j
      PROVE  z[i] # z[j] /\ Rank(z[i].do) <= Rank(z[j].do)
  <2>1. CASE i \in DOMAIN x /\ z[i] = x[i] /\ j \in DOMAIN x /\ z[j] = x[j]
    BY <1>3, <1>9, <2>1
  <2>2. CASE i \in DOMAIN x /\ z[i] = x[i] /\ j - Len(x) \in DOMAIN y /\ z[j] = y[j - Len(x)]
    BY <1>4, <2>2
  <2>3. CASE i - Len(x) \in DOMAIN y /\ z[i] = y[i - Len(x)] /\ j - Len(x) \in DOMAIN y /\ z[j] = y[j - Len(x)]
    <3>1. i - Len(x) < j - Len(x)
      BY <1>8, <1>9
    <3>. QED
      BY <1>3, <2>3, <3>1
  <2>4. ~(i > Len(x) /\ j \in DOMAIN x)
    BY <1>8, <1>9
  <2>. QED
    BY <1>6, <2>1, <2>2, <2>3, <2>4
<1>10. Sorted(z)
  BY <1>5, <1>9 DEF Sorted
<1>11. Steps(z) = Steps(x) \cup Steps(y)
  <2>1. Steps(z) \subseteq Steps(x) \cup Steps(y)
    BY <1>6 DEF Steps
  <2>2. Steps(x) \subseteq Steps(z)
    BY <1>7 DEF Steps
  <2>3. Steps(y) \subseteq Steps(z)
    BY <1>7 DEF Steps
  <2>. QED
    BY <2>1, <2>2, <2>3
<1>. QED
  BY <1>10, <1>11 DEF z

\* A step for every output
LEMMA EachFacts ==
  ASSUME NEW d \in Kinds
  PROVE  /\ Sorted(Each(d)) /\ Steps(Each(d)) = {Step(d, a) : a \in Outputs}
         /\ Sorted(Once(d)) /\ Steps(Once(d)) = {One(d)} /\ One(d) \in AllSteps
         /\ \E a \in Outputs : First(Each(d)) = {Step(d, a)}
         /\ First(Once(d)) = {One(d)}
<1>1. /\ Order \in Seq(Outputs) /\ {Order[i] : i \in DOMAIN Order} = Outputs /\ Outputs # {}
      /\ \A i, j \in DOMAIN Order : Order[i] = Order[j] => i = j
  BY OutputsAssumption
<1>2. DOMAIN Order = 1..Len(Order) /\ Len(Order) \in Nat /\ 1 \in DOMAIN Order /\ Order[1] \in Outputs
  BY <1>1, LenProperties, ElementOfSeq
<1>3. \A a \in Outputs : Step(d, a) \in AllSteps
  BY DEF Step, AllSteps
<1>4. /\ Each(d) \in [1..Len(Order) -> AllSteps] /\ DOMAIN Each(d) = DOMAIN Order
      /\ \A i \in DOMAIN Order : Each(d)[i] = Step(d, Order[i]) /\ Order[i] \in Outputs
  BY <1>1, <1>2, <1>3 DEF Each
<1>5. Each(d) \in Seq(AllSteps) /\ Len(Each(d)) = Len(Order)
  BY <1>2, <1>4, SeqDef, LenProperties
<1>6. Sorted(Each(d))
  <2>1. ASSUME NEW i \in DOMAIN Order, NEW j \in DOMAIN Order, i < j
        PROVE  Each(d)[i] # Each(d)[j] /\ Rank(Each(d)[i].do) <= Rank(Each(d)[j].do)
    <3>1. Order[i] # Order[j]
      BY <1>1, <1>2, <2>1
    <3>2. Each(d)[i].do = d /\ Each(d)[j].do = d /\ Each(d)[i].ao # Each(d)[j].ao
      BY <1>4, <3>1, StepFacts
    <3>3. Rank(d) \in Nat
      BY DEF Rank
    <3>. QED
      BY <3>2, <3>3
  <2>. QED
    BY <1>4, <1>5, <2>1 DEF Sorted
<1>7. Steps(Each(d)) = {Step(d, a) : a \in Outputs}
  <2>1. \A a \in Outputs : \E i \in DOMAIN Order : a = Order[i]
    BY <1>1
  <2>. QED
    BY <1>4, <2>1 DEF Steps
<1>8. Once(d) \in Seq(AllSteps) /\ DOMAIN Once(d) = {1} /\ Once(d)[1] = One(d) /\ Once(d) # << >>
  <2>1. One(d) \in AllSteps
    BY <1>2, <1>3 DEF One
  <2>. QED
    BY <2>1 DEF Once, One
<1>9. Sorted(Once(d)) /\ Steps(Once(d)) = {One(d)}
  BY <1>8 DEF Sorted, Steps
<1>10. \E a \in Outputs : First(Each(d)) = {Step(d, a)}
  <2>1. Each(d) # << >> /\ Head(Each(d)) = Step(d, Order[1])
    BY <1>2, <1>4, <1>5
  <2>. QED
    BY <1>2, <2>1 DEF First
<1>11. First(Once(d)) = {One(d)}
  BY <1>8, HeadTailProperties DEF First, Once, One
<1>12. One(d) \in AllSteps
  BY <1>2, <1>3 DEF One
<1>. QED
  BY <1>6, <1>7, <1>9, <1>10, <1>11, <1>12

\* A step in front of the others
LEMMA HeadedFacts ==
  ASSUME NEW h \in AllSteps, NEW t, Sorted(t), h \notin Steps(t),
         \A s \in Steps(t) : Rank(h.do) <= Rank(s.do)
  PROVE  /\ Sorted(<<h>> \o t) /\ Steps(<<h>> \o t) = Steps(t) \cup {h}
         /\ First(<<h>> \o t) = {h}
<1>1. <<h>> \in Seq(AllSteps) /\ DOMAIN <<h>> = {1} /\ <<h>>[1] = h
  OBVIOUS
<1>2. Sorted(<<h>>) /\ Steps(<<h>>) = {h}
  BY <1>1 DEF Sorted, Steps
<1>3. Sorted(<<h>> \o t) /\ Steps(<<h>> \o t) = {h} \cup Steps(t)
  BY <1>2, JoinFacts
<1>4. t \in Seq(AllSteps)
  BY DEF Sorted
<1>5. <<h>> \o t # << >> /\ Head(<<h>> \o t) = h
  BY <1>4, HeadedQueue, HeadTailProperties
<1>. QED
  BY <1>3, <1>5 DEF First

----------------------------------------------------------------------------
(***************************************************************************)
(* What is left of an operation when one of its steps is next.             *)
(***************************************************************************)

\* h is the next step.
NextIs(S, F, h) ==
  Program(S, F) /\ h \in S /\ F = {h} /\ \A s \in S : Rank(h.do) <= Rank(s.do)

\* The ranks, one by one
LEMMA RankFacts ==
  /\ Rank("wait") = 0 /\ Rank("updated") = 0 /\ Rank("update") = 1
  /\ Rank("enable") = 2 /\ Rank("interruptPause") = 2 /\ Rank("pause") = 2
  /\ Rank("interruptCancel") = 2 /\ Rank("cancel") = 2 /\ Rank("drain") = 2
  /\ Rank("close") = 2 /\ Rank("release") = 2 /\ Rank("consumed") = 2
  /\ Rank("waitAll") = 3 /\ Rank("tail") = 3 /\ Rank("reset") = 3
  /\ Rank("shift") = 4 /\ Rank("clear") = 4 /\ Rank("force") = 4 /\ Rank("kill") = 4
  /\ Rank("push") = 4 /\ Rank("play") = 4 /\ Rank("peek") = 4
  /\ Rank("opened") = 5 /\ Rank("join") = 5 /\ Rank("allow") = 5
  BY DEF Rank

\* The steps that can be left, by the next one
Behind(d) ==
  CASE d = "enable" -> {"enable", "waitAll", "force", "opened"}
    [] d = "waitAll" -> {"waitAll", "force", "opened", "clear", "allow"}
    [] d = "force" -> {"force", "opened"}
    [] d = "update" -> {"update", "push", "interruptPause", "waitAll"}
    [] d = "updated" -> {"updated", "update", "force", "opened", "push", "interruptPause",
                         "enable", "waitAll"}
    [] d = "wait" -> {"wait", "update", "force", "opened", "push", "interruptPause", "enable",
                      "waitAll", "close", "release", "reset", "kill", "join"}
    [] d \in {"interruptPause", "pause"} -> {"interruptPause", "pause", "waitAll"}
    [] d = "drain" -> {"drain", "waitAll"}
    [] d \in {"interruptCancel", "cancel"} ->
         {"interruptCancel", "cancel", "waitAll", "clear", "allow"}
    [] d = "clear" -> {"clear", "allow"}
    [] d = "close" -> {"close", "reset", "kill", "join"}
    [] d = "release" -> {"release", "reset"}
    [] d = "reset" -> {"reset", "kill", "join"}
    [] d = "kill" -> {"kill", "join"}
    [] d = "consumed" -> {"consumed", "tail", "shift"}
    [] d = "tail" -> {"tail", "shift"}
    [] OTHER -> {d}

\* What may follow the next step
LEMMA BehindFacts ==
  ASSUME NEW S, NEW F, NEW h, NextIs(S, F, h), NEW s \in S
  PROVE  s.do \in Behind(h.do) /\ h.do \in Kinds
<1>1. PICK K \in Programs : \A t \in S : t.do \in K
  BY DEF Program, NextIs
<1>2. h.do \in K /\ s.do \in K /\ Rank(h.do) <= Rank(s.do)
  BY <1>1 DEF NextIs
<1>3. s.do \in {"wait", "updated", "pause", "cancel"} => s.do = h.do
  BY DEF Program, NextIs
<1>4. h.do \in Kinds
  BY <1>2 DEF Kinds
<1>. DEFINE d == h.do
            f == s.do
<1>5. d \in K /\ f \in K /\ Rank(d) <= Rank(f) /\ (f \in {"wait", "updated", "pause", "cancel"} => f = d)
  BY <1>2, <1>3
<1>. HIDE DEF d, f
<1>6. ASSUME K = {"enable", "waitAll", "force", "updated", "wait", "opened"} PROVE f \in Behind(d)
  BY <1>5, <1>6, RankFacts DEF Behind
<1>7. ASSUME K = {"close", "wait", "reset", "kill", "join"} PROVE f \in Behind(d)
  BY <1>5, <1>7, RankFacts DEF Behind
<1>8. ASSUME K = {"release", "wait", "reset"} PROVE f \in Behind(d)
  BY <1>5, <1>8, RankFacts DEF Behind
<1>9. ASSUME K = {"update", "updated", "wait", "push"} PROVE f \in Behind(d)
  BY <1>5, <1>9, RankFacts DEF Behind
<1>10. ASSUME K \in {{"play"}, {"peek"}, {"allow"}} PROVE f \in Behind(d)
  BY <1>5, <1>10 DEF Behind
<1>11. ASSUME K = {"consumed", "tail", "shift"} PROVE f \in Behind(d)
  BY <1>5, <1>11, RankFacts DEF Behind
<1>12. ASSUME K = {"update", "updated", "wait", "interruptPause", "pause", "waitAll"} PROVE f \in Behind(d)
  BY <1>5, <1>12, RankFacts DEF Behind
<1>13. ASSUME K = {"drain", "waitAll"} PROVE f \in Behind(d)
  BY <1>5, <1>13, RankFacts DEF Behind
<1>14. ASSUME K = {"interruptCancel", "cancel", "waitAll", "clear", "allow"} PROVE f \in Behind(d)
  BY <1>5, <1>14, RankFacts DEF Behind
<1>15. f \in Behind(d)
  BY <1>1, <1>6, <1>7, <1>8, <1>9, <1>10, <1>11, <1>12, <1>13, <1>14 DEF Programs
<1>. QED
  BY <1>4, <1>15 DEF d, f

\* The rest of an operation is one.
LEMMA ProgramRest ==
  ASSUME NEW S, NEW F, NEW h, NextIs(S, F, h), NEW G \in SUBSET (S \ {h})
  PROVE  Program(S \ {h}, G)
<1>. USE StepFacts
<1>1. Program(S, F) /\ F = {h} /\ h \in S
  BY DEF NextIs
<1>2. \A s \in S : s.do \in Behind(h.do)
  BY BehindFacts
<1>3. \A s \in S \ {h} : s.do \notin {"wait", "updated", "pause", "cancel"}
  BY <1>1 DEF Program
<1>4. \A s \in S \ {h} : s.do \in {"enable", "interruptPause", "pause", "drain", "interruptCancel", "cancel"}
        => One("waitAll") \in S \ {h}
  BY <1>1, <1>2 DEF Program, Behind
<1>5. \A s \in S \ {h} : s.do \in {"interruptCancel", "cancel"} => One("clear") \in S \ {h}
  BY <1>1, <1>2 DEF Program, Behind
<1>6. One("clear") \in S \ {h} => \A a \in Outputs : Step("allow", a) \in S \ {h}
  BY <1>1, <1>2 DEF Program, Behind
<1>7. \A s \in S \ {h} : s.do \in {"consumed", "tail"} => One("shift") \in S \ {h}
  BY <1>1, <1>2 DEF Program, Behind
<1>8. \A s \in S \ {h} : s.do \in {"close", "release"} => One("reset") \in S \ {h}
  BY <1>1, <1>2 DEF Program, Behind
<1>. QED
  BY <1>1, <1>3, <1>4, <1>5, <1>6, <1>7, <1>8 DEF Program

\* The steps that come in place of another one of the same output
Replaces(f, d) ==
  \/ f \in {"wait", "updated"} /\ d \in {"update", "force"}
  \/ f = "wait" /\ d \in {"close", "release"}
  \/ f = "pause" /\ d = "interruptPause"
  \/ f = "cancel" /\ d = "interruptCancel"

\* The next step is replaced by the second half of it.
LEMMA ProgramSwap ==
  ASSUME NEW S, NEW F, NEW a \in Outputs, NEW d, NEW f, NextIs(S, F, Step(d, a)), Replaces(f, d)
  PROVE  /\ Program((S \ {Step(d, a)}) \cup {Step(f, a)}, {Step(f, a)})
         /\ Step(f, a) \in AllSteps /\ Step(f, a) \notin S \ {Step(d, a)}
         /\ \A s \in S \ {Step(d, a)} : Rank(f) <= Rank(s.do)
<1>. DEFINE h == Step(d, a)
            u == Step(f, a)
<1>0. h.do = d /\ h.ao = a /\ u.do = f /\ u.ao = a /\ h \in S
  BY StepFacts DEF NextIs
<1>1. Program(S, F) /\ F = {h} /\ \A s \in S : Rank(d) <= Rank(s.do)
  BY <1>0 DEF NextIs
<1>2. \A s \in S : s.do \in Behind(d)
  BY <1>0, BehindFacts
<1>3. \A s \in S \ {h} : s.do \notin {"wait", "updated", "pause", "cancel"}
  BY <1>1 DEF Program
<1>4. Rank(f) <= Rank(d) /\ Rank(f) \in Nat /\ Rank(d) \in Nat
  <2>1. Rank(f) <= Rank(d)
    BY RankFacts DEF Replaces
  <2>. QED
    BY <2>1 DEF Rank
<1>5. \A s \in S \ {h} : Rank(f) <= Rank(s.do)
  <2>1. \A s \in S : Rank(s.do) \in Nat
    BY DEF Rank
  <2>. QED
    BY <1>1, <1>4, <2>1
<1>6. u \in AllSteps
  <2>1. f \in Kinds
    <3>1. f \in {"wait", "updated", "pause", "cancel"}
      BY DEF Replaces
    <3>. QED
      BY <3>1 DEF Kinds, Programs
  <2>. QED
    BY <2>1 DEF AllSteps, Step
<1>7. \E K \in Programs : f \in K /\ \A s \in S : s.do \in K
  <2>1. PICK K \in Programs : \A s \in S : s.do \in K
    BY <1>1 DEF Program
  <2>2. d \in K
    BY <1>0, <2>1
  <2>3. f \in K
    BY <2>2 DEF Programs, Replaces
  <2>. QED
    BY <2>1, <2>3
<1>8. f \in {"wait", "updated", "pause", "cancel"}
  BY DEF Replaces
<1>9. u \notin S \ {h}
  BY <1>0, <1>3, <1>8
<1>. DEFINE T == (S \ {h}) \cup {u}
<1>10. \A s \in T : s \in S \/ s = u
  OBVIOUS
<1>11. /\ T \subseteq AllSteps /\ {u} \subseteq T
       /\ \E K \in Programs : \A s \in T : s.do \in K
       /\ \A s \in T : s.do \in {"waitAll", "opened", "push", "clear", "reset", "peek", "shift"}
             => s = One(s.do)
       /\ \A s \in T : s.do \in {"wait", "updated", "pause", "cancel"} => s \in {u}
  BY <1>0, <1>1, <1>3, <1>6, <1>7, <1>8 DEF Program
<1>12. /\ \A b \in Outputs : Step("pause", b) \in T => Step("interruptPause", b) \notin T
       /\ \A b \in Outputs : Step("cancel", b) \in T => Step("interruptCancel", b) \notin T
  <2>1. ASSUME NEW b \in Outputs, Step("pause", b) \in T PROVE Step("interruptPause", b) \notin T
    <3>1. u = Step("pause", b)
      BY <1>3, <2>1, StepFacts
    <3>2. f = "pause" /\ a = b /\ d = "interruptPause"
      BY <3>1, StepFacts DEF Replaces
    <3>. QED
      BY <3>2, StepFacts
  <2>2. ASSUME NEW b \in Outputs, Step("cancel", b) \in T PROVE Step("interruptCancel", b) \notin T
    <3>1. u = Step("cancel", b)
      BY <1>3, <2>2, StepFacts
    <3>2. f = "cancel" /\ a = b /\ d = "interruptCancel"
      BY <3>1, StepFacts DEF Replaces
    <3>. QED
      BY <3>2, StepFacts
  <2>. QED
    BY <2>1, <2>2
<1>13. d \notin {"waitAll", "clear", "shift", "reset", "allow", "enable"}
  BY DEF Replaces
<1>14. /\ \A s \in T : s.do \in {"enable", "interruptPause", "pause", "drain", "interruptCancel", "cancel"}
            => One("waitAll") \in T
       /\ \A s \in T : s.do \in {"interruptCancel", "cancel"} => One("clear") \in T
  <2>1. One("waitAll") \in S => One("waitAll") \in T
    BY <1>0, <1>13, StepFacts
  <2>2. One("clear") \in S => One("clear") \in T
    BY <1>0, <1>13, StepFacts
  <2>3. f = "pause" => One("waitAll") \in S
    BY <1>0, <1>1 DEF Program, Replaces
  <2>4. f = "cancel" => One("waitAll") \in S /\ One("clear") \in S
    BY <1>0, <1>1 DEF Program, Replaces
  <2>. HIDE DEF T, h, u
  <2>5. ASSUME NEW s \in S, s.do \in {"enable", "interruptPause", "pause", "drain", "interruptCancel", "cancel"}
        PROVE  One("waitAll") \in S
    BY <1>1, <2>5 DEF Program
  <2>6. ASSUME NEW s \in S, s.do \in {"interruptCancel", "cancel"} PROVE One("clear") \in S
    BY <1>1, <2>6 DEF Program
  <2>. QED
    BY <1>0, <1>8, <1>10, <2>1, <2>2, <2>3, <2>4, <2>5, <2>6
<1>15. One("clear") \in T => \A b \in Outputs : Step("allow", b) \in T
  BY <1>0, <1>1, <1>8, <1>13, StepFacts DEF Program
<1>16. \A s \in T : s.do \in {"consumed", "tail"} => One("shift") \in T
  BY <1>0, <1>1, <1>8, <1>13, StepFacts DEF Program
<1>17. \A s \in T : s.do \in {"close", "release"} => One("reset") \in T
  BY <1>0, <1>1, <1>8, <1>13, StepFacts DEF Program
<1>. HIDE DEF T
<1>18. Program(T, {u})
  BY <1>11, <1>12, <1>14, <1>15, <1>16, <1>17 DEF Program
<1>. QED
  BY <1>5, <1>6, <1>9, <1>18 DEF T

\* An output has no command while the player's next step is not one that waits.
LEMMA NoCommand ==
  ASSUME NEW S, NEW F, NEW h, NextIs(S, F, h), NEW a, NEW o, Expected(a, o, S, F),
         \/ h.do \notin {"wait", "updated", "waitAll", "enable", "interruptPause", "pause", "drain",
                         "interruptCancel", "cancel", "kill", "join"}
         \/ h.ao = a /\ h = Step(h.do, a) /\ h.do \notin {"wait", "updated", "waitAll", "join"}
  PROVE  o.command = "NONE"
<1>. USE StepFacts
<1>1. F = {h} /\ h \in S
  BY DEF NextIs
<1>2. \A s \in S : s.do \in Behind(h.do)
  BY BehindFacts
<1>3. h.do \notin {"wait", "updated"}
  OBVIOUS
<1>4. Step("updated", a) \notin F /\ Step("wait", a) \notin F
  BY <1>1, <1>3
<1>5. CASE o.command \in {"ENABLE", "DISABLE"}
  <2>1. One("waitAll") \in S /\ Step("enable", a) \notin S
        /\ \A s \in S : s.do \in {"enable", "waitAll", "force", "opened"}
    BY <1>5 DEF Expected
  <2>2. "waitAll" \in Behind(h.do) /\ h.do \in {"enable", "waitAll", "force", "opened"}
    BY <1>1, <1>2, <2>1
  <2>3. h.do \in {"enable", "waitAll"}
    BY <2>2 DEF Behind
  <2>. QED
    BY <1>1, <2>1, <2>3
<1>6. CASE o.command = "PAUSE"
  <2>1. Step("pause", a) \notin S /\ Step("interruptPause", a) \notin S
        /\ \A s \in S : s.do \in {"interruptPause", "pause", "waitAll"}
    BY <1>6 DEF Expected
  <2>. QED
    BY <1>1, <2>1
<1>7. CASE o.command = "DRAIN"
  <2>1. Step("drain", a) \notin S /\ \A s \in S : s.do \in {"drain", "waitAll"}
    BY <1>7 DEF Expected
  <2>. QED
    BY <1>1, <2>1
<1>8. CASE o.command = "CANCEL"
  <2>1. One("waitAll") \in S /\ One("clear") \in S
        /\ Step("cancel", a) \notin S /\ Step("interruptCancel", a) \notin S
    BY <1>8 DEF Expected
  <2>2. "waitAll" \in Behind(h.do) /\ "clear" \in Behind(h.do)
    BY <1>2, <2>1
  <2>3. h.do \in {"waitAll", "interruptCancel", "cancel"}
    BY <2>2 DEF Behind
  <2>. QED
    BY <1>1, <2>1, <2>3
<1>9. CASE o.command = "KILL"
  <2>1. Step("kill", a) \notin S /\ \A s \in S : s.do \in {"kill", "join"}
    BY <1>9 DEF Expected
  <2>. QED
    BY <1>1, <2>1
<1>. QED
  BY <1>4, <1>5, <1>6, <1>7, <1>8, <1>9 DEF Expected

----------------------------------------------------------------------------
(***************************************************************************)
(* A step of the player that is about one output.                          *)
(***************************************************************************)

\* The steps that the invariant of an output looks at, besides its command
Marks == {"allow", "pause", "cancel", "interruptCancel", "close", "release", "tail", "update",
          "consumed", "play"}
Singles == {"waitAll", "opened", "push", "clear", "reset", "peek", "shift"}

\* An output is not concerned by steps that say nothing of it.
LEMMA SameSteps ==
  ASSUME NEW a, NEW o, NEW S, NEW F, NEW n, NEW c, NEW e, NEW z, NEW T, NEW G,
         Fine(a, o, S, F, n, c, e, z), Expected(a, o, T, G),
         \A d \in Marks : Step(d, a) \in T <=> Step(d, a) \in S,
         \A d \in {"reset", "clear", "push", "shift"} : One(d) \in T <=> One(d) \in S
  PROVE  Fine(a, o, T, G, n, c, e, z)
<1>1. /\ Step("allow", a) \in T <=> Step("allow", a) \in S
      /\ Step("pause", a) \in T <=> Step("pause", a) \in S
      /\ Step("cancel", a) \in T <=> Step("cancel", a) \in S
      /\ Step("interruptCancel", a) \in T <=> Step("interruptCancel", a) \in S
      /\ Step("close", a) \in T <=> Step("close", a) \in S
      /\ Step("release", a) \in T <=> Step("release", a) \in S
      /\ Step("tail", a) \in T <=> Step("tail", a) \in S
      /\ Step("update", a) \in T <=> Step("update", a) \in S
      /\ Step("consumed", a) \in T <=> Step("consumed", a) \in S
      /\ Step("play", a) \in T <=> Step("play", a) \in S
  BY DEF Marks
<1>2. /\ One("reset") \in T <=> One("reset") \in S
      /\ One("clear") \in T <=> One("clear") \in S
      /\ One("push") \in T <=> One("push") \in S
      /\ One("shift") \in T <=> One("shift") \in S
  OBVIOUS
<1>3. Link(a, o, T, n)
  BY <1>1, <1>2 DEF Fine, Link
<1>4. Data(a, o, T, n, c, e)
  BY <1>1, <1>2 DEF Fine, Data
<1>5. Phase(a, o, T, n, c)
  BY <1>1, <1>2 DEF Fine, Phase, Closing, Clearing, Shifting
<1>6. Sleeper(a, o, T, n, c, z)
  BY <1>1 DEF Fine, Sleeper
<1>. QED
  BY <1>3, <1>4, <1>5, <1>6 DEF Fine

\* The other outputs do not notice it,
LEMMA OthersRest ==
  ASSUME NEW S, NEW F, NEW a \in Outputs, NEW d, NextIs(S, F, Step(d, a)), d \notin Singles,
         NEW b, b # a, NEW o, NEW n, NEW c, NEW e, NEW z, Fine(b, o, S, F, n, c, e, z), NEW G
  PROVE  Fine(b, o, S \ {Step(d, a)}, G, n, c, e, z)
<1>. DEFINE h == Step(d, a)
            T == S \ {h}
<1>1. F = {h} /\ h.do = d
  BY StepFacts DEF NextIs
<1>2. Expected(b, o, S, F)
  BY DEF Fine
<1>3. Step("updated", b) \notin F /\ Step("wait", b) \notin F
  BY <1>1, StepFacts
<1>4. \A f : Step(f, b) \in T <=> Step(f, b) \in S
  BY StepFacts
<1>5. \A f \in Singles : One(f) \in T <=> One(f) \in S
  BY <1>1, StepFacts
<1>6. (One("waitAll") \in S => One("waitAll") \in T) /\ (One("clear") \in S => One("clear") \in T)
  BY <1>5 DEF Singles
<1>7. \A s \in T : s \in S
  OBVIOUS
<1>. HIDE DEF h, T
<1>8. Expected(b, o, T, G)
  BY <1>2, <1>3, <1>4, <1>6, <1>7 DEF Expected
<1>9. \A f \in {"reset", "clear", "push", "shift"} : One(f) \in T <=> One(f) \in S
  BY <1>5 DEF Singles
<1>10. Fine(b, o, T, G, n, c, e, z)
  BY <1>4, <1>8, <1>9, SameSteps
<1>. QED
  BY <1>10 DEF T, h

\* nor that it is replaced by another one.
LEMMA OthersSwap ==
  ASSUME NEW S, NEW F, NEW a \in Outputs, NEW d, NEW f, NextIs(S, F, Step(d, a)), Replaces(f, d),
         NEW b, b # a, NEW o, NEW n, NEW c, NEW e, NEW z, Fine(b, o, S, F, n, c, e, z)
  PROVE  Fine(b, o, (S \ {Step(d, a)}) \cup {Step(f, a)}, {Step(f, a)}, n, c, e, z)
<1>. DEFINE h == Step(d, a)
            u == Step(f, a)
            T == (S \ {h}) \cup {u}
<1>1. F = {h} /\ h.do = d /\ u.do = f /\ h \in S
  BY StepFacts DEF NextIs
<1>2. Expected(b, o, S, F)
  BY DEF Fine
<1>3. d \notin Singles /\ f \notin Singles
  BY DEF Singles, Replaces
<1>4. \A k : Step(k, b) \in T <=> Step(k, b) \in S
  BY StepFacts
<1>5. \A k \in Singles : One(k) \in T <=> One(k) \in S
  BY <1>1, <1>3, StepFacts
<1>6. Expected(b, o, T, {u})
  <2>1. CASE d \in {"update", "force", "close", "release"}
    <3>1. h.do \notin {"wait", "updated", "waitAll", "enable", "interruptPause", "pause", "drain",
                       "interruptCancel", "cancel", "kill", "join"}
      BY <1>1, <2>1
    <3>2. o.command = "NONE"
      BY <1>2, <3>1, NoCommand
    <3>. QED
      BY <3>2 DEF Expected
  <2>2. CASE (d = "interruptPause" /\ f = "pause") \/ (d = "interruptCancel" /\ f = "cancel")
    <3>1. Step("updated", b) \notin F /\ Step("wait", b) \notin F
      BY <1>1, StepFacts
    <3>2. (One("waitAll") \in S => One("waitAll") \in T) /\ (One("clear") \in S => One("clear") \in T)
      BY <1>5 DEF Singles
    <3>3. \A s \in T : s \in S \/ s = u
      OBVIOUS
    <3>4. CASE o.command = "PAUSE"
      <4>1. \A s \in S : s.do \in {"interruptPause", "pause", "waitAll"}
        BY <1>2, <3>4 DEF Expected
      <4>2. f = "pause"
        BY <1>1, <2>2, <4>1
      <4>3. \A s \in T : s.do \in {"interruptPause", "pause", "waitAll"}
        BY <1>1, <3>3, <4>1, <4>2
      <4>. HIDE DEF T, h, u
      <4>. QED
        BY <1>2, <1>4, <3>2, <3>4, <4>3 DEF Expected
    <3>5. CASE o.command = "CANCEL"
      <4>. HIDE DEF T, h, u
      <4>. QED
        BY <1>2, <1>4, <3>2, <3>5 DEF Expected
    <3>6. CASE o.command \notin {"PAUSE", "CANCEL"}
      <4>1. o.command = "NONE"
        BY <1>1, <1>2, <2>2, <3>1, <3>6 DEF Expected
      <4>. QED
        BY <4>1 DEF Expected
    <3>. QED
      BY <3>4, <3>5, <3>6
  <2>. QED
    BY <2>1, <2>2 DEF Replaces
<1>7. \A k \in {"reset", "clear", "push", "shift"} : One(k) \in T <=> One(k) \in S
  BY <1>5 DEF Singles
<1>. HIDE DEF T, u, h
<1>8. Fine(b, o, T, {u}, n, c, e, z)
  BY <1>4, <1>6, <1>7, SameSteps
<1>. QED
  BY <1>8 DEF T, u, h

\* The player's next step
LEMMA HeadFacts ==
  ASSUME Inv, todo # << >>
  PROVE  /\ NextIs(Left, Now, Head(todo)) /\ Head(todo) \in AllSteps
         /\ Sorted(Rest) /\ Steps(Rest) = Left \ {Head(todo)} /\ First(Rest) \subseteq Steps(Rest)
         /\ \A s \in Left : s.do \in Behind(Head(todo).do)
         /\ Head(todo) = Step(Head(todo).do, Head(todo).ao)
<1>1. Sorted(todo) /\ Program(Left, Now)
  BY DEF Inv
<1>2. /\ Head(todo) \in Left /\ Head(todo) \in AllSteps /\ Now = {Head(todo)}
      /\ Sorted(Rest) /\ Steps(Rest) = Left \ {Head(todo)} /\ First(Rest) \subseteq Steps(Rest)
      /\ \A s \in Left : Rank(Head(todo).do) <= Rank(s.do)
  BY <1>1, RestFacts DEF Left, Now, Rest
<1>3. NextIs(Left, Now, Head(todo))
  BY <1>1, <1>2 DEF NextIs
<1>4. Head(todo) = Step(Head(todo).do, Head(todo).ao)
  BY <1>2 DEF AllSteps, Step
<1>. QED
  BY <1>2, <1>3, <1>4, BehindFacts

\* The part of the invariant that is about the player, after a step of an output
LEMMA PlayerRest ==
  ASSUME Inv, todo # << >>, todo' = Rest, PlayerUnchanged
  PROVE  Sorted(todo)' /\ Program(Left, Now)' /\ PipeInv' /\ PlayerInv(Left)'
         /\ Left' = Left \ {Head(todo)} /\ Now' = First(Rest)
<1>1. /\ NextIs(Left, Now, Head(todo)) /\ Sorted(Rest) /\ Steps(Rest) = Left \ {Head(todo)}
      /\ First(Rest) \subseteq Steps(Rest)
      /\ \A s \in Left : s.do \in Behind(Head(todo).do)
  BY HeadFacts
<1>2. Left' = Left \ {Head(todo)} /\ Now' = First(Rest)
  BY <1>1 DEF Left, Now
<1>3. Program(Left \ {Head(todo)}, First(Rest))
  BY <1>1, ProgramRest
<1>4. pipe' = pipe /\ pushed' = pushed /\ exists' = exists /\ client' = client
  BY DEF PlayerUnchanged
<1>5. PipeInv'
  BY <1>4 DEF Inv, PipeInv
<1>. DEFINE h == Head(todo)
            T == Left \ {h}
<1>6. PlayerInv(Left) /\ \A s \in T : s \in Left
  BY DEF Inv
<1>7. Len(pipe) = 1 => \A a, b \in Outputs : Step("consumed", a) \in T => Step("tail", b) \in T
  <2>. SUFFICES ASSUME Len(pipe) = 1, NEW a \in Outputs, NEW b \in Outputs, Step("consumed", a) \in T
                PROVE  Step("tail", b) \in T
    OBVIOUS
  <2>1. Step("tail", b) \in Left
    BY <1>6 DEF PlayerInv
  <2>2. "consumed" \in Behind(h.do)
    BY <1>1, StepFacts
  <2>3. h.do # "tail"
    BY <2>2 DEF Behind
  <2>. QED
    BY <2>1, <2>3, StepFacts
<1>. HIDE DEF T, h
<1>8. PlayerInv(T)
  BY <1>6, <1>7 DEF PlayerInv
<1>9. PlayerInv(Left)'
  BY <1>2, <1>4, <1>8 DEF PlayerInv, T, h
<1>10. Program(Left, Now)' /\ Sorted(todo)'
  BY <1>1, <1>2, <1>3
<1>. QED
  BY <1>2, <1>5, <1>9, <1>10

\* A step that is done
LEMMA StepKeeps ==
  ASSUME Inv, todo # << >>, NEW a \in Outputs, NEW d, Head(todo) = Step(d, a), d \notin Singles,
         NEW x, ao' = [ao EXCEPT ![a] = x], asleep' = asleep \/ asleep' = asleep \ {a},
         PlayerUnchanged, todo' = Rest,
         Fine(a, x, Left \ {Step(d, a)}, First(Rest), Len(pipe), pushed, exists, a \in asleep')
  PROVE  Inv'
<1>1. Sorted(todo)' /\ Program(Left, Now)' /\ PipeInv' /\ PlayerInv(Left)'
      /\ Left' = Left \ {Step(d, a)} /\ Now' = First(Rest)
  BY PlayerRest
<1>2. NextIs(Left, Now, Step(d, a))
  BY HeadFacts
<1>3. ao \in [Outputs -> Records] /\ asleep \subseteq Outputs /\ x \in Records
  BY DEF Inv, Fine
<1>4. ao' \in [Outputs -> Records] /\ asleep' \subseteq Outputs
  BY <1>3
<1>5. pipe' = pipe /\ pushed' = pushed /\ exists' = exists
  BY DEF PlayerUnchanged
<1>6. ASSUME NEW b \in Outputs PROVE FineNow(b)'
  <2>1. CASE b = a
    <3>1. ao'[b] = x
      BY <1>3, <2>1
    <3>. QED
      BY <1>1, <1>5, <2>1, <3>1 DEF FineNow
  <2>2. CASE b # a
    <3>1. ao'[b] = ao[b] /\ (b \in asleep' <=> b \in asleep) /\ FineNow(b)
      BY <1>3, <2>2 DEF Inv
    <3>2. (b \in asleep') = (b \in asleep)
      BY <3>1
    <3>3. Fine(b, ao[b], Left, Now, Len(pipe), pushed, exists, b \in asleep)
      BY <3>1 DEF FineNow
    <3>4. Fine(b, ao[b], Left \ {Step(d, a)}, First(Rest), Len(pipe), pushed, exists, b \in asleep)
      BY <1>2, <2>2, <3>3, OthersRest
    <3>. QED
      BY <1>1, <1>5, <3>1, <3>2, <3>4 DEF FineNow
  <2>. QED
    BY <2>1, <2>2
<1>. QED
  BY <1>1, <1>4, <1>6 DEF Inv

\* A step that is followed by another one of the same output
LEMMA SwapKeeps ==
  ASSUME Inv, todo # << >>, NEW a \in Outputs, NEW d, NEW f, Head(todo) = Step(d, a), Replaces(f, d),
         NEW x, ao' = [ao EXCEPT ![a] = x], asleep' = asleep \/ asleep' = asleep \ {a},
         PlayerUnchanged, todo' = <<Step(f, a)>> \o Rest,
         Fine(a, x, (Left \ {Step(d, a)}) \cup {Step(f, a)}, {Step(f, a)},
              Len(pipe), pushed, exists, a \in asleep')
  PROVE  Inv'
<1>. DEFINE T == (Left \ {Step(d, a)}) \cup {Step(f, a)}
<1>1. NextIs(Left, Now, Step(d, a)) /\ Sorted(Rest) /\ Steps(Rest) = Left \ {Step(d, a)}
  BY HeadFacts
<1>2. /\ Program(T, {Step(f, a)})
      /\ Step(f, a) \in AllSteps /\ Step(f, a) \notin Left \ {Step(d, a)}
      /\ \A s \in Left \ {Step(d, a)} : Rank(f) <= Rank(s.do)
  BY <1>1, ProgramSwap
<1>3. Step(f, a).do = f /\ Step(d, a).do = d /\ Step(d, a) \in Left
  BY <1>1, StepFacts DEF NextIs
<1>4. Sorted(todo') /\ Steps(todo') = T /\ First(todo') = {Step(f, a)}
  BY <1>1, <1>2, <1>3, HeadedFacts
<1>5. Left' = T /\ Now' = {Step(f, a)}
  BY <1>4 DEF Left, Now
<1>6. pipe' = pipe /\ pushed' = pushed /\ exists' = exists /\ client' = client
  BY DEF PlayerUnchanged
<1>7. PipeInv'
  BY <1>6 DEF Inv, PipeInv
<1>8. PlayerInv(T)
  <2>1. PlayerInv(Left)
    BY DEF Inv
  <2>2. \A s \in T : s \in Left \/ s = Step(f, a)
    OBVIOUS
  <2>3. f \in {"wait", "updated", "pause", "cancel"} /\ (f = "updated" => d \in {"update", "force"})
        /\ d # "tail"
    BY DEF Replaces
  <2>4. f = "updated" => exists
    BY <1>3, <2>1, <2>3 DEF PlayerInv
  <2>5. \A b \in Outputs : Step("tail", b) \in Left => Step("tail", b) \in T
    BY <2>3, StepFacts
  <2>6. \A b \in Outputs : Step("consumed", b) \in T => Step("consumed", b) \in Left
    BY <2>3, StepFacts
  <2>7. \A k \in {"reset", "push", "shift"} : One(k) \in T => One(k) \in Left
    BY <2>3, StepFacts
  <2>. HIDE DEF T
  <2>. QED
    BY <1>3, <2>1, <2>2, <2>3, <2>4, <2>5, <2>6, <2>7 DEF PlayerInv
<1>. HIDE DEF T
<1>9. PlayerInv(Left)' /\ Program(Left, Now)' /\ Sorted(todo)'
  BY <1>2, <1>4, <1>5, <1>6, <1>8 DEF PlayerInv
<1>10. ao \in [Outputs -> Records] /\ asleep \subseteq Outputs /\ x \in Records
  BY DEF Inv, Fine
<1>11. ao' \in [Outputs -> Records] /\ asleep' \subseteq Outputs
  BY <1>10
<1>12. ASSUME NEW b \in Outputs PROVE FineNow(b)'
  <2>1. CASE b = a
    <3>1. ao'[b] = x
      BY <1>10, <2>1
    <3>. QED
      BY <1>5, <1>6, <2>1, <3>1 DEF FineNow, T
  <2>2. CASE b # a
    <3>1. ao'[b] = ao[b] /\ (b \in asleep' <=> b \in asleep) /\ FineNow(b)
      BY <1>10, <2>2 DEF Inv
    <3>2. (b \in asleep') = (b \in asleep)
      BY <3>1
    <3>3. Fine(b, ao[b], Left, Now, Len(pipe), pushed, exists, b \in asleep)
      BY <3>1 DEF FineNow
    <3>4. Fine(b, ao[b], T, {Step(f, a)}, Len(pipe), pushed, exists, b \in asleep)
      BY <1>1, <2>2, <3>3, OthersSwap DEF T
    <3>. QED
      BY <1>5, <1>6, <3>1, <3>2, <3>4 DEF FineNow
  <2>. QED
    BY <2>1, <2>2
<1>. QED
  BY <1>7, <1>9, <1>11, <1>12 DEF Inv

----------------------------------------------------------------------------
(***************************************************************************)
(* Commands.                                                               *)
(***************************************************************************)

\* CommandAsync(): what a command needs
LEMMA CommandFine ==
  ASSUME NEW a, NEW o, NEW S, NEW F, NEW n, NEW c, NEW e, NEW z, Context(S, F, n, c, e),
         Fine(a, o, S, F, n, c, e, z), o.command = "NONE", NEW y \in Records,
         y.at = o.at, y.then = o.then, y.command = o.command, y.open = o.open, y.source = o.source,
         y.really = o.really, y.reopen = o.reopen, y.caught = o.caught, y.inloop = o.inloop,
         y.chunk = o.chunk, y.consumed = o.consumed, y.current = o.current, y.pipe = o.pipe,
         y.last = o.last, y.failed \in {o.failed, FALSE},
         o.filter = "null" => y.filter = "null", NEW cmd \in Commands, cmd # "NONE", NEW T, NEW G,
         Expected(a, [y EXCEPT !.command = cmd, !.at = IF @ = "none" THEN "loop" ELSE @], T, G),
         cmd = "OPEN" => o.really, cmd = "DRAIN" => n = 0,
         One("shift") \notin S, One("shift") \notin T,
         ~y.allow => Step("allow", a) \in T,
         y.open /\ (y.interrupt \/ y.caught) => cmd \in {"PAUSE", "CANCEL", "CLOSE", "RELEASE", "KILL"},
         One("clear") \in T /\ Step("cancel", a) \notin T /\ Step("interruptCancel", a) \notin T /\ y.open
           => ~y.allow
  PROVE  Fine(a, [y EXCEPT !.command = cmd, !.at = IF @ = "none" THEN "loop" ELSE @], T, G, n, c, e, FALSE)
<1>. DEFINE x == [y EXCEPT !.command = cmd, !.at = IF @ = "none" THEN "loop" ELSE @]
<1>1. x \in Records
  <2>. DEFINE g == IF y.at = "none" THEN "loop" ELSE y.at
              u == [y EXCEPT !.command = cmd, !.at = g]
  <2>1. g \in Places
    BY DEF Records, Places
  <2>2. x = u
    OBVIOUS
  <2>. HIDE DEF g, x
  <2>3. u \in Records
    BY <2>1, Zenon DEF Records
  <2>. QED
    BY <2>2, <2>3
<1>2. /\ x.command = cmd /\ x.at = (IF y.at = "none" THEN "loop" ELSE y.at)
      /\ x.then = o.then /\ x.open = o.open /\ x.source = o.source /\ x.really = o.really
      /\ x.reopen = o.reopen /\ x.inloop = o.inloop /\ x.chunk = o.chunk /\ x.consumed = o.consumed
      /\ x.current = o.current /\ x.pipe = o.pipe /\ x.last = o.last /\ x.caught = y.caught
      /\ x.failed \in {o.failed, FALSE} /\ x.filter = y.filter /\ x.allow = y.allow /\ x.interrupt = y.interrupt
  BY DEF Records
<1>3. Expected(a, x, T, G)
  OBVIOUS
<1>. HIDE DEF x
<1>4. Local(a, o) /\ Data(a, o, S, n, c, e)
  BY DEF Fine
<1>5. Local(a, x)
  BY <1>2, <1>4, ZenonT(60) DEF Local
<1>6. Link(a, x, T, n)
  BY <1>2 DEF Link
<1>7. o.at \notin {"cancelling", "pausing", "draining", "opening"}
  BY <1>4 DEF Local
<1>8. Data(a, x, T, n, c, e)
  BY <1>2, <1>4, <1>7 DEF Data, Idle
<1>9. Phase(a, x, T, n, c)
  BY <1>2 DEF Phase, Closing, Clearing, Shifting
<1>10. Sleeper(a, x, T, n, c, FALSE)
  BY DEF Sleeper
<1>. QED
  BY <1>1, <1>3, <1>5, <1>6, <1>8, <1>9, <1>10 DEF Fine, x

\* A command to which the player's next step gives way
LEMMA SendRest ==
  ASSUME Inv, todo # << >>, NEW a \in Outputs, NEW d, Head(todo) = Step(d, a), d \notin Singles,
         NEW y, NEW cmd, CommandAsync(a, y, cmd), PlayerUnchanged, todo' = Rest,
         Fine(a, [y EXCEPT !.command = cmd, !.at = IF @ = "none" THEN "loop" ELSE @],
              Left \ {Step(d, a)}, First(Rest), Len(pipe), pushed, exists, FALSE)
  PROVE  Inv'
<1>. DEFINE x == [y EXCEPT !.command = cmd, !.at = IF @ = "none" THEN "loop" ELSE @]
<1>1. ao' = [ao EXCEPT ![a] = x] /\ asleep' = asleep \ {a}
  BY DEF CommandAsync
<1>2. (a \in asleep') = FALSE
  BY <1>1
<1>3. Fine(a, x, Left \ {Step(d, a)}, First(Rest), Len(pipe), pushed, exists, a \in asleep')
  BY <1>2
<1>. HIDE DEF x
<1>. QED
  BY <1>1, <1>3, StepKeeps

\* A command for which the player waits
LEMMA SendSwap ==
  ASSUME Inv, todo # << >>, NEW a \in Outputs, NEW d, NEW f, Head(todo) = Step(d, a), Replaces(f, d),
         NEW y, NEW cmd, CommandAsync(a, y, cmd), PlayerUnchanged, todo' = <<Step(f, a)>> \o Rest,
         Fine(a, [y EXCEPT !.command = cmd, !.at = IF @ = "none" THEN "loop" ELSE @],
              (Left \ {Step(d, a)}) \cup {Step(f, a)}, {Step(f, a)}, Len(pipe), pushed, exists, FALSE)
  PROVE  Inv'
<1>. DEFINE x == [y EXCEPT !.command = cmd, !.at = IF @ = "none" THEN "loop" ELSE @]
<1>1. ao' = [ao EXCEPT ![a] = x] /\ asleep' = asleep \ {a}
  BY DEF CommandAsync
<1>2. (a \in asleep') = FALSE
  BY <1>1
<1>3. Fine(a, x, (Left \ {Step(d, a)}) \cup {Step(f, a)}, {Step(f, a)}, Len(pipe), pushed, exists, a \in asleep')
  BY <1>2
<1>. HIDE DEF x
<1>. QED
  BY <1>1, <1>3, SwapKeeps

\* A step of the player about output a: the head of the list, and what is known of a
LEMMA OutputStep ==
  ASSUME Inv, NEW a \in Outputs, NEW d \in Kinds, Doing(d), Head(todo).ao = a
  PROVE  /\ todo # << >> /\ Head(todo) = Step(d, a) /\ NextIs(Left, Now, Step(d, a)) /\ Now = {Step(d, a)}
         /\ \A s \in Left : s.do \in Behind(d)
         /\ \A s \in Left \ {Step(d, a)} : s.do \notin {"wait", "updated", "pause", "cancel"}
         /\ First(Rest) \subseteq Left \ {Step(d, a)}
         /\ Context(Left, Now, Len(pipe), pushed, exists) /\ Program(Left, Now) /\ PlayerInv(Left)
         /\ Fine(a, ao[a], Left, Now, Len(pipe), pushed, exists, a \in asleep)
         /\ ao[a] \in Records /\ Local(a, ao[a]) /\ Step(d, a) \in Left
         /\ d \notin {"wait", "updated", "waitAll", "join"} => ao[a].command = "NONE"
<1>1. todo # << >> /\ Head(todo) = Step(d, a)
  BY HeadFacts DEF Doing
<1>2. /\ NextIs(Left, Now, Step(d, a)) /\ First(Rest) \subseteq Left \ {Step(d, a)}
      /\ \A s \in Left : s.do \in Behind(Step(d, a).do)
  BY <1>1, HeadFacts
<1>3. Step(d, a).do = d /\ Step(d, a).ao = a
  BY StepFacts
<1>4. Now = {Step(d, a)} /\ Program(Left, Now) /\ Step(d, a) \in Left
  BY <1>2 DEF NextIs
<1>5. \A s \in Left \ {Step(d, a)} : s.do \notin {"wait", "updated", "pause", "cancel"}
  BY <1>4 DEF Program
<1>6. Fine(a, ao[a], Left, Now, Len(pipe), pushed, exists, a \in asleep) /\ PlayerInv(Left)
  BY DEF Inv, FineNow
<1>7. Expected(a, ao[a], Left, Now) /\ ao[a] \in Records /\ Local(a, ao[a])
  BY <1>6 DEF Fine
<1>8. d \notin {"wait", "updated", "waitAll", "join"} => ao[a].command = "NONE"
  BY <1>2, <1>3, <1>7, NoCommand
<1>. QED
  BY <1>1, <1>2, <1>3, <1>4, <1>5, <1>6, <1>7, <1>8, InvContext

----------------------------------------------------------------------------
(***************************************************************************)
(* The steps of the player, one by one.                                    *)
(***************************************************************************)

\* The kinds of steps, one by one
LEMMA KindFacts ==
  ASSUME NEW d \in {"enable", "waitAll", "force", "updated", "wait", "opened", "close", "reset", "kill",
                    "join", "release", "update", "push", "play", "peek", "consumed", "tail", "shift",
                    "allow", "interruptPause", "pause", "drain", "interruptCancel", "cancel", "clear"}
  PROVE  d \in Kinds
  BY DEF Kinds, Programs

\* An output about which nothing changes but the list
LEMMA NothingDone ==
  ASSUME Inv, NEW a \in Outputs, NEW d \in Kinds, Doing(d), Head(todo).ao = a, d \notin Singles,
         UNCHANGED <<ao, asleep>>, PlayerUnchanged, todo' = Rest,
         Fine(a, ao[a], Left \ {Step(d, a)}, First(Rest), Len(pipe), pushed, exists, a \in asleep)
  PROVE  Inv'
<1>1. todo # << >> /\ Head(todo) = Step(d, a)
  BY OutputStep
<1>2. ao \in [Outputs -> Records]
  BY DEF Inv
<1>3. ao' = [ao EXCEPT ![a] = ao[a]] /\ asleep' = asleep
  BY <1>2
<1>4. (a \in asleep') = (a \in asleep)
  BY <1>3
<1>. QED
  BY <1>1, <1>3, <1>4, StepKeeps

\* A step that the invariant of the output does not look at
LEMMA Unmarked ==
  ASSUME Inv, NEW a \in Outputs, NEW d \in Kinds, Doing(d), Head(todo).ao = a, d \notin Marks \cup Singles,
         ao[a].command = "NONE"
  PROVE  Fine(a, ao[a], Left \ {Step(d, a)}, First(Rest), Len(pipe), pushed, exists, a \in asleep)
<1>1. Fine(a, ao[a], Left, Now, Len(pipe), pushed, exists, a \in asleep)
  BY OutputStep
<1>. DEFINE T == Left \ {Step(d, a)}
<1>2. /\ \A f \in Marks : Step(f, a) \in T <=> Step(f, a) \in Left
      /\ \A f \in {"reset", "clear", "push", "shift"} : One(f) \in T <=> One(f) \in Left
  BY StepFacts DEF Singles
<1>3. Expected(a, ao[a], T, First(Rest))
  BY DEF Expected
<1>. HIDE DEF T
<1>4. Fine(a, ao[a], T, First(Rest), Len(pipe), pushed, exists, a \in asleep)
  BY <1>1, <1>2, <1>3, SameSteps
<1>. QED
  BY <1>4 DEF T

\* EnableDisable(): an output gets a command, or is switched without a thread.
LEMMA LockEnableDisableAsyncKeeps ==
  ASSUME Inv, NEW a \in Outputs, LockEnableDisableAsync(a)
  PROVE  Inv'
<1>. DEFINE o == ao[a]
            d == "enable"
            T == Left \ {Step(d, a)}
            x == [o EXCEPT !.really = o.enabled]
<1>1. d \in Kinds /\ Doing(d) /\ Head(todo).ao = a /\ todo' = Rest /\ PlayerUnchanged
      /\ d \notin Marks \cup Singles
  BY KindFacts DEF LockEnableDisableAsync, Marks, Singles
<1>2. /\ todo # << >> /\ Head(todo) = Step(d, a) /\ Now = {Step(d, a)}
      /\ \A s \in Left : s.do \in Behind(d)
      /\ Context(Left, Now, Len(pipe), pushed, exists) /\ Program(Left, Now)
      /\ Fine(a, o, Left, Now, Len(pipe), pushed, exists, a \in asleep)
      /\ o \in Records /\ Local(a, o) /\ o.command = "NONE" /\ Step(d, a) \in Left
  BY <1>1, OutputStep
<1>3. Fine(a, o, T, First(Rest), Len(pipe), pushed, exists, a \in asleep)
  BY <1>1, <1>2, Unmarked
<1>4. \/ UNCHANGED <<ao, asleep>>
      \/ o.at = "none" /\ Set(a, x)
      \/ CommandAsync(a, o, "ENABLE")
      \/ CommandAsync(a, o, "DISABLE")
  BY DEF LockEnableDisableAsync
<1>5. \A s \in T : s.do \in {"enable", "waitAll", "force", "opened"}
  BY <1>2 DEF Behind
<1>6. One("waitAll") \in T /\ Step("enable", a) \notin T
  <2>1. One("waitAll") \in Left
    BY <1>2, StepFacts DEF Program
  <2>. QED
    BY <2>1, StepFacts
<1>7. One("shift") \notin Left /\ One("shift") \notin T /\ One("clear") \notin T
  BY <1>2, StepFacts DEF Behind
<1>8. o.allow /\ ~(o.open /\ (o.interrupt \/ o.caught))
  <2>1. Step("allow", a) \notin Left /\ Step("pause", a) \notin Left /\ Step("cancel", a) \notin Left
    BY <1>2, StepFacts DEF Behind
  <2>. QED
    BY <1>2, <1>7, <2>1 DEF Fine, Link
<1>9. CASE UNCHANGED <<ao, asleep>>
  BY <1>1, <1>3, <1>9, NothingDone
<1>10. CASE o.at = "none" /\ Set(a, x)
  <2>1. /\ x \in Records /\ x.at = o.at /\ x.command = o.command /\ x.open = o.open
        /\ x.source = o.source /\ x.chunk = o.chunk /\ x.current = o.current /\ x.last = o.last
        /\ x.allow = o.allow /\ x.pipe = o.pipe /\ x.inloop = o.inloop /\ x.caught = o.caught
        /\ x.woken = o.woken
    BY <1>2 DEF Records
  <2>2. ~o.open /\ ~o.inloop /\ o.source = "CLOSED" /\ o.chunk = 0 /\ o.current = 0 /\ o.last = 0
    BY <1>2, <1>10 DEF Local
  <2>3. asleep' = asleep /\ ao' = [ao EXCEPT ![a] = x]
    BY <1>10 DEF Set
  <2>4. a \notin asleep
    BY <1>2, <1>10 DEF Fine, Sleeper
  <2>5. (a \in asleep') = FALSE
    BY <2>3, <2>4
  <2>6. (a \in asleep) = FALSE
    BY <2>4
  <2>7. Fine(a, o, T, First(Rest), Len(pipe), pushed, exists, FALSE)
    BY <1>3, <2>6
  <2>. HIDE DEF x, T, o
  <2>8. Local(a, x)
    BY <1>2, <1>10, <2>1, <2>2 DEF Local
  <2>9. Expected(a, x, T, First(Rest)) /\ Link(a, x, T, Len(pipe))
    BY <1>2, <1>8, <2>1, <2>2 DEF Expected, Link
  <2>10. Data(a, x, T, Len(pipe), pushed, exists)
    BY <1>2, <1>10, <2>1, <2>2, <2>7 DEF Fine, Data
  <2>11. Phase(a, x, T, Len(pipe), pushed)
    BY <2>1, <2>2 DEF Phase, Closing, Clearing, Shifting
  <2>12. Fine(a, x, T, First(Rest), Len(pipe), pushed, exists, FALSE)
    BY <2>1, <2>8, <2>9, <2>10, <2>11 DEF Fine, Sleeper
  <2>. QED
    BY <1>1, <1>2, <2>3, <2>5, <2>12, StepKeeps DEF T, Singles
<1>11. ASSUME NEW cmd \in {"ENABLE", "DISABLE"}, CommandAsync(a, o, cmd) PROVE Inv'
  <2>. DEFINE w == [o EXCEPT !.command = cmd, !.at = IF @ = "none" THEN "loop" ELSE @]
  <2>1. w.command = cmd
    BY <1>2 DEF Records
  <2>. HIDE DEF w, T, o
  <2>2. Expected(a, w, T, First(Rest))
    BY <1>5, <1>6, <1>11, <2>1 DEF Expected
  <2>3. cmd \in Commands /\ cmd # "NONE" /\ cmd # "OPEN" /\ cmd # "DRAIN"
    BY <1>11 DEF Commands
  <2>4. Fine(a, w, T, First(Rest), Len(pipe), pushed, exists, FALSE)
    BY <1>2, <1>7, <1>8, <2>2, <2>3, CommandFine DEF w
  <2>. QED
    BY <1>1, <1>2, <1>11, <2>4, SendRest DEF T, w, Singles
<1>. QED
  BY <1>4, <1>9, <1>10, <1>11

\* A step that is about the list or the pipe only
LEMMA AllKeep ==
  ASSUME Inv, Sorted(todo)', Program(Left, Now)', PipeInv', PlayerInv(Left)', UNCHANGED <<ao, asleep>>,
         \A b \in Outputs : Fine(b, ao[b], Left', Now', Len(pipe'), pushed', exists', b \in asleep)
  PROVE  Inv'
<1>1. ao' = ao /\ asleep' = asleep
  OBVIOUS
<1>2. ASSUME NEW b \in Outputs PROVE FineNow(b)'
  <2>1. Fine(b, ao[b], Left', Now', Len(pipe'), pushed', exists', b \in asleep)
    OBVIOUS
  <2>. QED
    BY <1>1, <2>1 DEF FineNow
<1>. QED
  BY <1>1, <1>2 DEF Inv

\* WaitAll(): no command is pending afterwards.
LEMMA WaitAllKeeps ==
  ASSUME Inv, WaitAll
  PROVE  Inv'
<1>1. todo # << >> /\ Head(todo).do = "waitAll" /\ todo' = Rest /\ PlayerUnchanged
      /\ UNCHANGED <<ao, asleep>> /\ \A a \in Outputs : ao[a].command = "NONE"
  BY DEF WaitAll, Doing
<1>2. Sorted(todo)' /\ Program(Left, Now)' /\ PipeInv' /\ PlayerInv(Left)'
      /\ Left' = Left \ {Head(todo)}
  BY <1>1, PlayerRest
<1>3. pipe' = pipe /\ pushed' = pushed /\ exists' = exists
  BY <1>1 DEF PlayerUnchanged
<1>4. ASSUME NEW b \in Outputs
      PROVE  Fine(b, ao[b], Left', Now', Len(pipe), pushed, exists, b \in asleep)
  <2>1. Fine(b, ao[b], Left, Now, Len(pipe), pushed, exists, b \in asleep)
    BY DEF Inv, FineNow
  <2>2. Expected(b, ao[b], Left', Now')
    BY <1>1 DEF Expected
  <2>3. \A d \in Marks : Step(d, b) \in Left' <=> Step(d, b) \in Left
    BY <1>1, <1>2, StepFacts DEF Marks
  <2>4. \A d \in {"reset", "clear", "push", "shift"} : One(d) \in Left' <=> One(d) \in Left
    BY <1>1, <1>2, StepFacts
  <2>. QED
    BY <2>1, <2>2, <2>3, <2>4, SameSteps
<1>. QED
  BY <1>1, <1>2, <1>3, <1>4, AllKeep

\* CommandWait() returns.
LEMMA WaitForCommandKeeps ==
  ASSUME Inv, NEW a \in Outputs, WaitForCommand(a)
  PROVE  Inv'
<1>1. PICK d \in {"wait", "updated"} : Doing(d)
  BY DEF WaitForCommand
<1>2. /\ Head(todo).ao = a /\ ao[a].command = "NONE" /\ todo' = Rest /\ PlayerUnchanged
      /\ UNCHANGED <<ao, asleep>>
  BY DEF WaitForCommand
<1>3. d \in Kinds /\ d \notin Marks \cup Singles
  BY KindFacts DEF Marks, Singles
<1>. QED
  BY <1>1, <1>2, <1>3, Unmarked, NothingDone

\* LockUpdate(): an output is opened, closed or left alone.
LEMMA LockUpdateKeeps ==
  ASSUME Inv, NEW a \in Outputs, LockUpdate(a)
  PROVE  Inv'
<1>. DEFINE o == ao[a]
<1>1. PICK d \in {"update", "force"} : Doing(d)
  BY DEF LockUpdate
<1>. DEFINE T == Left \ {Step(d, a)}
            x == [o EXCEPT !.failed = FALSE]
            y == [o EXCEPT !.failed = FALSE, !.request = "live"]
            g == IF o.filter = "open" THEN "stale" ELSE o.filter
            y2 == [o EXCEPT !.failed = FALSE, !.request = "live", !.filter = g]
<1>2. d \in Kinds /\ Head(todo).ao = a /\ PlayerUnchanged /\ d \notin Singles
  BY KindFacts DEF LockUpdate, Singles
<1>3. /\ todo # << >> /\ Head(todo) = Step(d, a) /\ Now = {Step(d, a)}
      /\ NextIs(Left, Now, Step(d, a))
      /\ \A s \in Left : s.do \in Behind(d)
      /\ Context(Left, Now, Len(pipe), pushed, exists) /\ Program(Left, Now)
      /\ Fine(a, o, Left, Now, Len(pipe), pushed, exists, a \in asleep)
      /\ o \in Records /\ Local(a, o) /\ o.command = "NONE" /\ Step(d, a) \in Left
  BY <1>1, <1>2, OutputStep
<1>4. \/ o.really /\ o.open /\ ~o.reopen /\ Set(a, x) /\ todo' = Rest
      \/ \E v \in {y, y2} :
            o.really /\ CommandAsync(a, v, "OPEN") /\ todo' = <<Step("updated", a)>> \o Rest
      \/ o.failed /\ UNCHANGED <<ao, asleep>> /\ todo' = Rest
      \/ CommandAsync(a, o, "CLOSE") /\ todo' = <<Step("wait", a)>> \o Rest
      \/ ~o.open /\ UNCHANGED <<ao, asleep>> /\ todo' = Rest
  BY DEF LockUpdate
<1>5. \A s \in Left : s.do \in {"update", "push", "interruptPause", "waitAll", "force", "opened"}
  BY <1>3 DEF Behind
<1>6. /\ One("shift") \notin Left /\ One("clear") \notin Left /\ One("reset") \notin Left
      /\ Step("allow", a) \notin Left /\ Step("pause", a) \notin Left /\ Step("cancel", a) \notin Left
      /\ Step("play", a) \notin Left
  BY <1>5, StepFacts
<1>7. o.allow /\ ~(o.open /\ (o.interrupt \/ o.caught))
  BY <1>3, <1>6 DEF Fine, Link
<1>8. ASSUME NEW w \in Records, w.command = "NONE", Local(a, w),
             w.at = o.at, w.open = o.open, w.source = o.source, w.chunk = o.chunk, w.consumed = o.consumed,
             w.current = o.current, w.last = o.last, w.pipe = o.pipe, w.allow = o.allow,
             w.interrupt = o.interrupt, w.caught = o.caught, w.woken = o.woken
      PROVE  Fine(a, w, T, First(Rest), Len(pipe), pushed, exists, a \in asleep)
  <2>1. /\ One("shift") \notin T /\ One("clear") \notin T /\ One("reset") \notin T
        /\ Step("play", a) \notin T
    BY <1>6
  <2>2. Data(a, o, Left, Len(pipe), pushed, exists) /\ Sleeper(a, o, Left, Len(pipe), pushed, a \in asleep)
    BY <1>3 DEF Fine
  <2>. HIDE DEF o, T
  <2>3. Expected(a, w, T, First(Rest)) /\ Link(a, w, T, Len(pipe))
    BY <1>7, <1>8 DEF Expected, Link
  <2>4. Data(a, w, T, Len(pipe), pushed, exists)
    BY <1>3, <1>6, <1>8, <2>2 DEF Data, Idle
  <2>5. Phase(a, w, T, Len(pipe), pushed)
    BY <1>8, <2>1 DEF Phase, Closing, Clearing, Shifting
  <2>6. CanPlay(w) = CanPlay(o) /\ (Nothing(w, Len(pipe), pushed) <=> Nothing(o, Len(pipe), pushed))
    BY <1>8 DEF CanPlay, Nothing
  <2>7. Sleeper(a, w, T, Len(pipe), pushed, a \in asleep)
    BY <1>3, <1>6, <1>8, <2>2, <2>6 DEF Sleeper
  <2>. QED
    BY <1>8, <2>3, <2>4, <2>5, <2>7 DEF Fine
<1>9. ASSUME NEW f \in {"wait", "updated"}
      PROVE  /\ One("shift") \notin T \cup {Step(f, a)} /\ One("clear") \notin T \cup {Step(f, a)}
             /\ Replaces(f, d)
  BY <1>6, StepFacts DEF Replaces
<1>10. CASE o.really /\ o.open /\ ~o.reopen /\ Set(a, x) /\ todo' = Rest
  <2>1. /\ x \in Records /\ x.command = o.command /\ x.reopen = o.reopen
        /\ x.at = o.at /\ x.open = o.open /\ x.source = o.source /\ x.chunk = o.chunk /\ x.consumed = o.consumed
        /\ x.current = o.current /\ x.last = o.last /\ x.pipe = o.pipe /\ x.allow = o.allow
        /\ x.interrupt = o.interrupt /\ x.caught = o.caught /\ x.woken = o.woken /\ x.then = o.then
        /\ x.really = o.really /\ x.inloop = o.inloop /\ ~x.failed
    BY <1>3 DEF Records
  <2>2. ao' = [ao EXCEPT ![a] = x] /\ asleep' = asleep
    BY <1>10 DEF Set
  <2>. HIDE DEF x, o
  <2>3. Local(a, x)
    BY <1>3, <2>1 DEF Local
  <2>4. Fine(a, x, T, First(Rest), Len(pipe), pushed, exists, a \in asleep)
    BY <1>3, <1>8, <1>10, <2>1, <2>3
  <2>5. (a \in asleep') = (a \in asleep)
    BY <2>2
  <2>. QED
    BY <1>2, <1>3, <1>10, <2>2, <2>4, <2>5, StepKeeps
<1>11. ASSUME NEW v \in {y, y2}, o.really, CommandAsync(a, v, "OPEN"),
              todo' = <<Step("updated", a)>> \o Rest
       PROVE  Inv'
  <2>. DEFINE U == T \cup {Step("updated", a)}
              w == [v EXCEPT !.command = "OPEN", !.at = IF @ = "none" THEN "loop" ELSE @]
  <2>1. /\ v \in Records /\ v.at = o.at /\ v.then = o.then /\ v.command = o.command /\ v.open = o.open
        /\ v.source = o.source /\ v.really = o.really /\ v.reopen = o.reopen /\ v.caught = o.caught
        /\ v.inloop = o.inloop /\ v.chunk = o.chunk /\ v.consumed = o.consumed /\ v.current = o.current
        /\ v.pipe = o.pipe /\ v.last = o.last /\ v.failed = FALSE /\ v.allow = o.allow
        /\ v.interrupt = o.interrupt
        /\ (o.filter = "null" => v.filter = "null")
    <3>1. /\ y \in Records /\ y.at = o.at /\ y.then = o.then /\ y.command = o.command /\ y.open = o.open
          /\ y.source = o.source /\ y.really = o.really /\ y.reopen = o.reopen /\ y.caught = o.caught
          /\ y.inloop = o.inloop /\ y.chunk = o.chunk /\ y.consumed = o.consumed /\ y.current = o.current
          /\ y.pipe = o.pipe /\ y.last = o.last /\ y.failed = FALSE /\ y.allow = o.allow
          /\ y.interrupt = o.interrupt
          /\ (o.filter = "null" => y.filter = "null")
      BY <1>3 DEF Records, Pointers
    <3>2. g \in Filters /\ (o.filter = "null" => g = "null")
      BY <1>3 DEF Records, Filters
    <3>. HIDE DEF g
    <3>4. y2 \in Records
      BY <1>3, <3>2, Values, Zenon DEF Records
    <3>3. /\ y2.at = o.at /\ y2.then = o.then /\ y2.command = o.command /\ y2.open = o.open
          /\ y2.source = o.source /\ y2.really = o.really /\ y2.reopen = o.reopen /\ y2.caught = o.caught
          /\ y2.inloop = o.inloop /\ y2.chunk = o.chunk /\ y2.consumed = o.consumed /\ y2.current = o.current
          /\ y2.pipe = o.pipe /\ y2.last = o.last /\ y2.failed = FALSE /\ y2.allow = o.allow
          /\ y2.interrupt = o.interrupt
          /\ (o.filter = "null" => y2.filter = "null")
      BY <1>3, <3>2, Zenon DEF Records
    <3>. HIDE DEF y, y2, o
    <3>. QED
      BY <1>11, <3>1, <3>3, <3>4
  <2>. HIDE DEF y, y2, o
  <2>2. w.command = "OPEN"
    BY <2>1 DEF Records
  <2>3. One("shift") \notin U /\ One("clear") \notin U /\ Replaces("updated", d)
    BY <1>9
  <2>. HIDE DEF w, U, T
  <2>4. Expected(a, w, U, {Step("updated", a)})
    BY <2>2 DEF Expected
  <2>5. Fine(a, w, U, {Step("updated", a)}, Len(pipe), pushed, exists, FALSE)
    <3>1. v.allow /\ ~(v.open /\ (v.interrupt \/ v.caught)) /\ v.failed \in {o.failed, FALSE}
          /\ "OPEN" \in Commands /\ "OPEN" # "NONE" /\ "OPEN" # "DRAIN"
      BY <1>7, <2>1 DEF Commands
    <3>. QED
      BY <1>3, <1>6, <1>11, <2>1, <2>3, <2>4, <3>1, CommandFine DEF w
  <2>. QED
    BY <1>2, <1>3, <1>11, <2>3, <2>5, SendSwap DEF U, T, w
<1>12. CASE CommandAsync(a, o, "CLOSE") /\ todo' = <<Step("wait", a)>> \o Rest
  <2>. DEFINE U == T \cup {Step("wait", a)}
              w == [o EXCEPT !.command = "CLOSE", !.at = IF @ = "none" THEN "loop" ELSE @]
  <2>. HIDE DEF o
  <2>2. w.command = "CLOSE"
    BY <1>3 DEF Records
  <2>3. One("shift") \notin U /\ One("clear") \notin U /\ Replaces("wait", d)
    BY <1>9
  <2>. HIDE DEF w, U, T
  <2>4. Expected(a, w, U, {Step("wait", a)})
    BY <2>2 DEF Expected
  <2>5. Fine(a, w, U, {Step("wait", a)}, Len(pipe), pushed, exists, FALSE)
    BY <1>3, <1>6, <1>7, <1>12, <2>3, <2>4, CommandFine, ZenonT(60) DEF w, Commands
  <2>. QED
    BY <1>2, <1>3, <1>12, <2>3, <2>5, SendSwap DEF U, T, w
<1>13. CASE (o.failed \/ ~o.open) /\ UNCHANGED <<ao, asleep>> /\ todo' = Rest
  <2>2. Fine(a, o, T, First(Rest), Len(pipe), pushed, exists, a \in asleep)
    BY <1>3, <1>8
  <2>. QED
    BY <1>1, <1>2, <1>13, <2>2, NothingDone
<1>. QED
  BY <1>4, <1>10, <1>11, <1>12, <1>13

\* A thread that sleeps is woken up for a new chunk.
LEMMA LockPlayKeeps ==
  ASSUME Inv, NEW a \in Outputs, LockPlay(a)
  PROVE  Inv'
<1>. DEFINE o == ao[a]
            d == "play"
            T == Left \ {Step(d, a)}
            x == [o EXCEPT !.woken = TRUE]
<1>1. d \in Kinds /\ Doing(d) /\ Head(todo).ao = a /\ PlayerUnchanged /\ d \notin Singles /\ todo' = Rest
  BY KindFacts DEF LockPlay, Singles
<1>2. /\ todo # << >> /\ Head(todo) = Step(d, a)
      /\ \A s \in Left : s.do \in Behind(d)
      /\ Fine(a, o, Left, Now, Len(pipe), pushed, exists, a \in asleep)
      /\ o \in Records /\ Local(a, o) /\ o.command = "NONE"
  BY <1>1, OutputStep
<1>3. \A s \in Left : s.do = "play"
  BY <1>2 DEF Behind
<1>4. /\ One("shift") \notin Left /\ One("clear") \notin Left /\ One("reset") \notin Left
      /\ One("push") \notin Left
      /\ Step("allow", a) \notin Left /\ Step("pause", a) \notin Left /\ Step("cancel", a) \notin Left
  BY <1>3, StepFacts
<1>5. ASSUME NEW w \in Records, w.command = "NONE", Local(a, w),
             w.at = o.at, w.open = o.open, w.source = o.source, w.chunk = o.chunk, w.consumed = o.consumed,
             w.current = o.current, w.last = o.last, w.pipe = o.pipe, w.allow = o.allow,
             w.interrupt = o.interrupt, w.caught = o.caught, NEW z,
             Sleeper(a, w, T, Len(pipe), pushed, z)
      PROVE  Fine(a, w, T, First(Rest), Len(pipe), pushed, exists, z)
  <2>1. /\ One("shift") \notin T /\ One("clear") \notin T /\ One("reset") \notin T /\ One("push") \notin T
    BY <1>4
  <2>2. Data(a, o, Left, Len(pipe), pushed, exists) /\ Link(a, o, Left, Len(pipe))
    BY <1>2 DEF Fine
  <2>. HIDE DEF o, T
  <2>3. Expected(a, w, T, First(Rest)) /\ Link(a, w, T, Len(pipe))
    BY <1>2, <1>4, <1>5, <2>2 DEF Expected, Link
  <2>4. Data(a, w, T, Len(pipe), pushed, exists)
    BY <1>2, <1>4, <1>5, <2>2 DEF Data, Idle
  <2>5. Phase(a, w, T, Len(pipe), pushed)
    BY <1>5, <2>1 DEF Phase, Closing, Clearing, Shifting
  <2>. QED
    BY <1>5, <2>3, <2>4, <2>5 DEF Fine
<1>6. CASE o.open /\ ~o.inloop /\ ~o.woken
  <2>1. ao' = [ao EXCEPT ![a].woken = TRUE] /\ asleep' = asleep \ {a}
    BY <1>6 DEF LockPlay
  <2>2. ao' = [ao EXCEPT ![a] = x]
    BY <2>1
  <2>3. /\ x \in Records /\ x.command = o.command /\ x.reopen = o.reopen
        /\ x.at = o.at /\ x.open = o.open /\ x.source = o.source /\ x.chunk = o.chunk /\ x.consumed = o.consumed
        /\ x.current = o.current /\ x.last = o.last /\ x.pipe = o.pipe /\ x.allow = o.allow
        /\ x.interrupt = o.interrupt /\ x.caught = o.caught /\ x.then = o.then
        /\ x.really = o.really /\ x.inloop = o.inloop /\ x.failed = o.failed /\ x.filter = o.filter
    BY <1>2 DEF Records
  <2>. HIDE DEF x, o
  <2>4. Local(a, x) /\ Sleeper(a, x, T, Len(pipe), pushed, FALSE)
    BY <1>2, <2>3 DEF Local, Sleeper
  <2>5. Fine(a, x, T, First(Rest), Len(pipe), pushed, exists, FALSE)
    BY <1>2, <1>5, <2>3, <2>4
  <2>6. (a \in asleep') = FALSE
    BY <2>1
  <2>7. Fine(a, x, T, First(Rest), Len(pipe), pushed, exists, a \in asleep')
    BY <2>5, <2>6
  <2>. HIDE DEF d
  <2>. QED
    BY <1>1, <1>2, <2>1, <2>2, <2>7, StepKeeps
<1>7. CASE ~(o.open /\ ~o.inloop /\ ~o.woken)
  <2>1. UNCHANGED <<ao, asleep>>
    BY <1>7 DEF LockPlay
  <2>2. Sleeper(a, o, Left, Len(pipe), pushed, a \in asleep)
    BY <1>2 DEF Fine
  <2>3. a \in asleep /\ o.at = "loop" => ~CanPlay(o)
    BY <1>2, <1>7, <2>2 DEF Sleeper, Local, CanPlay
  <2>4. Sleeper(a, o, T, Len(pipe), pushed, a \in asleep)
    BY <2>2, <2>3 DEF Sleeper
  <2>5. Fine(a, o, T, First(Rest), Len(pipe), pushed, exists, a \in asleep)
    BY <1>2, <1>5, <2>4
  <2>. QED
    BY <1>1, <2>1, <2>5, NothingDone
<1>. QED
  BY <1>6, <1>7

\* AudioOutput::Interrupt(), before the command that goes with it
LEMMA InterruptKeeps ==
  ASSUME Inv, NEW a \in Outputs, Interrupt(a)
  PROVE  Inv'
<1>. DEFINE o == ao[a]
            x == [o EXCEPT !.interrupt = TRUE]
<1>1. \E d \in {"interruptPause", "interruptCancel"}, f \in {"pause", "cancel"} :
         Doing(d) /\ Replaces(f, d) /\ todo' = <<Step(f, a)>> \o Rest
  BY DEF Interrupt, Doing, Replaces
<1>2. PICK d \in {"interruptPause", "interruptCancel"}, f \in {"pause", "cancel"} :
         Doing(d) /\ Replaces(f, d) /\ todo' = <<Step(f, a)>> \o Rest
  BY <1>1
<1>. DEFINE T == (Left \ {Step(d, a)}) \cup {Step(f, a)}
<1>3. d \in Kinds /\ Head(todo).ao = a /\ PlayerUnchanged /\ ao' = [ao EXCEPT ![a] = x] /\ asleep' = asleep
  BY KindFacts DEF Interrupt, Set
<1>4. /\ todo # << >> /\ Head(todo) = Step(d, a)
      /\ \A s \in Left : s.do \in Behind(d)
      /\ \A s \in Left \ {Step(d, a)} : s.do \notin {"wait", "updated", "pause", "cancel"}
      /\ Context(Left, Now, Len(pipe), pushed, exists) /\ Program(Left, Now)
      /\ Fine(a, o, Left, Now, Len(pipe), pushed, exists, a \in asleep)
      /\ o \in Records /\ Local(a, o) /\ o.command = "NONE" /\ Step(d, a) \in Left
  BY <1>2, <1>3, OutputStep
<1>5. \A s \in Left : s.do \in {"interruptPause", "pause", "interruptCancel", "cancel", "waitAll", "clear", "allow"}
  BY <1>4 DEF Behind
<1>6. /\ One("shift") \notin Left /\ One("reset") \notin Left /\ One("push") \notin Left
      /\ Step("play", a) \notin Left
  BY <1>5, StepFacts
<1>7. /\ One("shift") \notin T /\ One("reset") \notin T /\ One("push") \notin T /\ Step("play", a) \notin T
      /\ (Step("allow", a) \in Left => Step("allow", a) \in T)
      /\ (Step("pause", a) \in T \/ Step("cancel", a) \in T)
  BY <1>6, StepFacts
<1>8. One("clear") \in T => Step("cancel", a) \in T
  <2>1. ASSUME One("clear") \in T PROVE f = "cancel"
    <3>1. One("clear") \in Left
      BY <2>1, StepFacts
    <3>2. "clear" \in Behind(d)
      BY <1>4, <3>1, StepFacts
    <3>3. d = "interruptCancel"
      BY <3>2 DEF Behind
    <3>. QED
      BY <1>2, <3>3 DEF Replaces
  <2>. QED
    BY <2>1
<1>9. /\ x \in Records /\ x.command = o.command /\ x.reopen = o.reopen
      /\ x.at = o.at /\ x.open = o.open /\ x.source = o.source /\ x.chunk = o.chunk /\ x.consumed = o.consumed
      /\ x.current = o.current /\ x.last = o.last /\ x.pipe = o.pipe /\ x.allow = o.allow
      /\ x.woken = o.woken /\ x.caught = o.caught /\ x.then = o.then
      /\ x.really = o.really /\ x.inloop = o.inloop /\ x.failed = o.failed /\ x.filter = o.filter
  BY <1>4 DEF Records
<1>10. Data(a, o, Left, Len(pipe), pushed, exists) /\ Link(a, o, Left, Len(pipe))
       /\ Sleeper(a, o, Left, Len(pipe), pushed, a \in asleep)
  BY <1>4 DEF Fine
<1>. HIDE DEF x, o, T
<1>11. Local(a, x)
  BY <1>4, <1>9 DEF Local
<1>12. Expected(a, x, T, {Step(f, a)}) /\ Link(a, x, T, Len(pipe))
  BY <1>4, <1>6, <1>7, <1>9, <1>10 DEF Expected, Link
<1>13. Data(a, x, T, Len(pipe), pushed, exists)
  BY <1>4, <1>6, <1>9, <1>10 DEF Data, Idle
<1>14. Phase(a, x, T, Len(pipe), pushed)
  BY <1>7, <1>8 DEF Phase, Closing, Clearing, Shifting
<1>15. CanPlay(x) = CanPlay(o) /\ (Nothing(x, Len(pipe), pushed) <=> Nothing(o, Len(pipe), pushed))
  BY <1>9 DEF CanPlay, Nothing
<1>16. Sleeper(a, x, T, Len(pipe), pushed, a \in asleep)
  BY <1>6, <1>9, <1>10, <1>15 DEF Sleeper
<1>17. Fine(a, x, T, {Step(f, a)}, Len(pipe), pushed, exists, a \in asleep)
  BY <1>9, <1>11, <1>12, <1>13, <1>14, <1>16 DEF Fine
<1>18. (a \in asleep') = (a \in asleep)
  BY <1>3
<1>. QED
  BY <1>2, <1>3, <1>4, <1>17, <1>18, SwapKeeps DEF T

\* PAUSE, DRAIN and CANCEL
LEMMA LockAsyncKeeps ==
  ASSUME Inv, NEW a \in Outputs, LockAsync(a)
  PROVE  Inv'
<1>. DEFINE o == ao[a]
            y == [o EXCEPT !.allow = FALSE]
<1>1. PICK d \in {"pause", "drain", "cancel"} : Doing(d)
  BY DEF LockAsync, Doing
<1>. DEFINE T == Left \ {Step(d, a)}
<1>2. d \in Kinds /\ Head(todo).ao = a /\ PlayerUnchanged /\ todo' = Rest /\ d \notin Singles
  BY KindFacts DEF LockAsync, Singles
<1>3. /\ todo # << >> /\ Head(todo) = Step(d, a) /\ Step(d, a).do = d
      /\ \A s \in Left : s.do \in Behind(d)
      /\ \A s \in T : s.do \notin {"wait", "updated", "pause", "cancel"}
      /\ Context(Left, Now, Len(pipe), pushed, exists) /\ Program(Left, Now) /\ PlayerInv(Left)
      /\ Fine(a, o, Left, Now, Len(pipe), pushed, exists, a \in asleep)
      /\ o \in Records /\ Local(a, o) /\ o.command = "NONE" /\ Step(d, a) \in Left
  BY <1>1, <1>2, OutputStep, StepFacts
<1>4. \/ ~o.open /\ UNCHANGED <<ao, asleep>>
      \/ o.open /\ d = "pause" /\ CommandAsync(a, o, "PAUSE")
      \/ o.open /\ d = "drain" /\ CommandAsync(a, o, "DRAIN")
      \/ o.open /\ d = "cancel" /\ CommandAsync(a, y, "CANCEL")
  BY <1>1 DEF LockAsync, Doing
<1>5. \A s \in Left : s.do \in {"interruptPause", "pause", "drain", "interruptCancel", "cancel", "waitAll",
                               "clear", "allow"}
  BY <1>3 DEF Behind
<1>6. /\ One("shift") \notin Left /\ One("reset") \notin Left /\ One("push") \notin Left
      /\ Step("play", a) \notin Left
      /\ One("shift") \notin T /\ One("reset") \notin T /\ One("push") \notin T /\ Step("play", a) \notin T
  BY <1>5, StepFacts
<1>7. One("waitAll") \in T /\ (One("clear") \in Left => One("clear") \in T)
      /\ (Step("allow", a) \in Left => Step("allow", a) \in T)
  <2>1. One("waitAll") \in Left
    BY <1>3 DEF Program
  <2>. QED
    BY <2>1, StepFacts
<1>8. ~o.allow => Step("allow", a) \in T
  BY <1>3, <1>6, <1>7 DEF Fine, Link
<1>9. One("clear") \in T => d = "cancel"
  <2>1. One("clear") \in T => "clear" \in Behind(d)
    BY <1>3, StepFacts
  <2>. QED
    BY <2>1 DEF Behind
<1>10. CASE ~o.open /\ UNCHANGED <<ao, asleep>>
  <2>1. Local(a, o) /\ Data(a, o, Left, Len(pipe), pushed, exists)
        /\ Sleeper(a, o, Left, Len(pipe), pushed, a \in asleep)
    BY <1>3 DEF Fine
  <2>. HIDE DEF T, o
  <2>2. Expected(a, o, T, First(Rest)) /\ Link(a, o, T, Len(pipe))
    BY <1>3, <1>8, <1>10 DEF Expected, Link
  <2>3. Data(a, o, T, Len(pipe), pushed, exists)
    BY <1>10, <2>1 DEF Data
  <2>4. Phase(a, o, T, Len(pipe), pushed)
    BY <1>10 DEF Phase, Closing, Clearing, Shifting
  <2>5. Sleeper(a, o, T, Len(pipe), pushed, a \in asleep)
    BY <1>10, <2>1 DEF Sleeper, CanPlay
  <2>6. Fine(a, o, T, First(Rest), Len(pipe), pushed, exists, a \in asleep)
    BY <1>3, <2>2, <2>3, <2>4, <2>5 DEF Fine
  <2>. QED
    BY <1>1, <1>2, <1>10, <2>6, NothingDone DEF T, o
<1>11. CASE o.open /\ d = "pause" /\ CommandAsync(a, o, "PAUSE")
  <2>. DEFINE w == [o EXCEPT !.command = "PAUSE", !.at = IF @ = "none" THEN "loop" ELSE @]
  <2>1. w.command = "PAUSE"
    BY <1>3 DEF Records
  <2>2. \A s \in T : s.do \in {"interruptPause", "pause", "waitAll"}
    BY <1>3, <1>11 DEF Behind
  <2>3. Step("pause", a) \notin T /\ Step("interruptPause", a) \notin T
    BY <1>3, <1>11 DEF Program
  <2>4. One("clear") \notin T
    BY <1>9, <1>11
  <2>. HIDE DEF w, T, o
  <2>5. Expected(a, w, T, First(Rest))
    BY <1>7, <2>1, <2>2, <2>3 DEF Expected
  <2>6. Fine(a, w, T, First(Rest), Len(pipe), pushed, exists, FALSE)
    BY <1>3, <1>6, <1>8, <2>4, <2>5, CommandFine DEF w, Commands
  <2>. QED
    BY <1>2, <1>3, <1>11, <2>6, SendRest DEF w, T
<1>12. CASE o.open /\ d = "drain" /\ CommandAsync(a, o, "DRAIN")
  <2>. DEFINE w == [o EXCEPT !.command = "DRAIN", !.at = IF @ = "none" THEN "loop" ELSE @]
  <2>1. w.command = "DRAIN"
    BY <1>3 DEF Records
  <2>2. \A s \in T : s.do \in {"drain", "waitAll"}
    BY <1>3, <1>12 DEF Behind
  <2>3. Step("drain", a) \notin T /\ Len(pipe) = 0
    BY <1>3, <1>12 DEF PlayerInv
  <2>4. One("clear") \notin T
    BY <1>9, <1>12
  <2>5. ~(o.open /\ (o.interrupt \/ o.caught))
    <3>1. Step("pause", a) \notin Left /\ Step("cancel", a) \notin Left
      BY <1>3, <1>12, StepFacts
    <3>. QED
      BY <1>3, <3>1 DEF Fine, Link
  <2>. HIDE DEF w, T, o
  <2>6. Expected(a, w, T, First(Rest))
    BY <1>7, <2>1, <2>2, <2>3 DEF Expected
  <2>7. Fine(a, w, T, First(Rest), Len(pipe), pushed, exists, FALSE)
    BY <1>3, <1>6, <1>8, <2>3, <2>4, <2>5, <2>6, CommandFine DEF w, Commands
  <2>. QED
    BY <1>2, <1>3, <1>12, <2>7, SendRest DEF w, T
<1>13. CASE o.open /\ d = "cancel" /\ CommandAsync(a, y, "CANCEL")
  <2>. DEFINE w == [y EXCEPT !.command = "CANCEL", !.at = IF @ = "none" THEN "loop" ELSE @]
  <2>1. /\ y \in Records /\ y.at = o.at /\ y.then = o.then /\ y.command = o.command /\ y.open = o.open
        /\ y.source = o.source /\ y.really = o.really /\ y.reopen = o.reopen /\ y.caught = o.caught
        /\ y.inloop = o.inloop /\ y.chunk = o.chunk /\ y.consumed = o.consumed /\ y.current = o.current
        /\ y.pipe = o.pipe /\ y.last = o.last /\ y.failed = o.failed /\ y.filter = o.filter /\ y.allow = FALSE
    BY <1>3 DEF Records
  <2>. HIDE DEF y, o
  <2>2. w.command = "CANCEL"
    BY <2>1 DEF Records
  <2>3. One("clear") \in T /\ Step("allow", a) \in T /\ Step("cancel", a) \notin T /\ Step("interruptCancel", a) \notin T
    BY <1>3, <1>7, <1>13 DEF Program
  <2>. HIDE DEF w, T
  <2>4. Expected(a, w, T, First(Rest))
    BY <1>7, <2>2, <2>3 DEF Expected
  <2>5. Fine(a, w, T, First(Rest), Len(pipe), pushed, exists, FALSE)
    <3>1. ~y.allow /\ y.failed \in {o.failed, FALSE} /\ (o.filter = "null" => y.filter = "null")
          /\ "CANCEL" \in Commands /\ "CANCEL" # "NONE" /\ "CANCEL" # "DRAIN" /\ "CANCEL" # "OPEN"
      BY <2>1 DEF Commands
    <3>. QED
      BY <1>3, <1>6, <2>1, <2>3, <2>4, <3>1, CommandFine, ZenonT(60) DEF w
  <2>. QED
    BY <1>2, <1>3, <1>13, <2>5, SendRest DEF w, T
<1>. QED
  BY <1>4, <1>10, <1>11, <1>12, <1>13

\* CLOSE and RELEASE, for which the player waits
LEMMA LockCloseWaitKeeps ==
  ASSUME Inv, NEW a \in Outputs, LockCloseWait(a)
  PROVE  Inv'
<1>. DEFINE o == ao[a]
            x == [o EXCEPT !.failed = FALSE]
            y == [o EXCEPT !.interrupt = TRUE]
<1>1. PICK d \in {"close", "release"} : Doing(d)
  BY DEF LockCloseWait
<1>. DEFINE T == Left \ {Step(d, a)}
            U == T \cup {Step("wait", a)}
<1>2. d \in Kinds /\ Head(todo).ao = a /\ PlayerUnchanged /\ d \notin Singles
  BY KindFacts DEF LockCloseWait, Singles
<1>3. /\ todo # << >> /\ Head(todo) = Step(d, a) /\ Step(d, a).do = d
      /\ \A s \in Left : s.do \in Behind(d)
      /\ Context(Left, Now, Len(pipe), pushed, exists) /\ Program(Left, Now)
      /\ Fine(a, o, Left, Now, Len(pipe), pushed, exists, a \in asleep)
      /\ o \in Records /\ Local(a, o) /\ o.command = "NONE" /\ Step(d, a) \in Left
  BY <1>1, <1>2, OutputStep, StepFacts
<1>4. \/ o.open /\ todo' = <<Step("wait", a)>> \o Rest
         /\ (CommandAsync(a, y, "CLOSE") \/ CommandAsync(a, y, "RELEASE"))
      \/ ~o.open /\ Set(a, x) /\ todo' = Rest
  BY DEF LockCloseWait
<1>5. \A s \in Left : s.do \in {"close", "release", "reset", "kill", "join"}
  BY <1>3 DEF Behind
<1>6. /\ One("shift") \notin Left /\ One("clear") \notin Left /\ One("push") \notin Left
      /\ Step("play", a) \notin Left /\ Step("allow", a) \notin Left
  BY <1>5, StepFacts
<1>7. One("reset") \in T /\ One("reset") \in U
  <2>1. One("reset") \in Left
    BY <1>3 DEF Program
  <2>. QED
    BY <2>1, StepFacts
<1>8. o.allow
  BY <1>3, <1>6 DEF Fine, Link
<1>9. CASE ~o.open /\ Set(a, x) /\ todo' = Rest
  <2>1. /\ x \in Records /\ x.command = o.command /\ x.reopen = o.reopen
        /\ x.at = o.at /\ x.open = o.open /\ x.source = o.source /\ x.chunk = o.chunk /\ x.consumed = o.consumed
        /\ x.current = o.current /\ x.last = o.last /\ x.pipe = o.pipe /\ x.allow = o.allow
        /\ x.interrupt = o.interrupt /\ x.caught = o.caught /\ x.woken = o.woken /\ x.then = o.then
        /\ x.really = o.really /\ x.inloop = o.inloop /\ ~x.failed
    BY <1>3 DEF Records
  <2>2. ao' = [ao EXCEPT ![a] = x] /\ asleep' = asleep
    BY <1>9 DEF Set
  <2>3. Local(a, o) /\ Data(a, o, Left, Len(pipe), pushed, exists)
        /\ Sleeper(a, o, Left, Len(pipe), pushed, a \in asleep)
    BY <1>3 DEF Fine
  <2>. HIDE DEF x, o, T
  <2>4. Local(a, x)
    BY <1>3, <2>1 DEF Local
  <2>5. Expected(a, x, T, First(Rest)) /\ Link(a, x, T, Len(pipe))
    BY <1>3, <1>8, <1>9, <2>1 DEF Expected, Link
  <2>6. Data(a, x, T, Len(pipe), pushed, exists)
    BY <1>3, <1>9, <2>1, <2>3 DEF Data, Idle
  <2>7. Phase(a, x, T, Len(pipe), pushed)
    BY <1>9, <2>1 DEF Phase, Closing, Clearing, Shifting
  <2>8. Sleeper(a, x, T, Len(pipe), pushed, a \in asleep)
    BY <1>9, <2>1, <2>3 DEF Sleeper, CanPlay
  <2>9. Fine(a, x, T, First(Rest), Len(pipe), pushed, exists, a \in asleep)
    BY <2>1, <2>4, <2>5, <2>6, <2>7, <2>8 DEF Fine
  <2>10. (a \in asleep') = (a \in asleep)
    BY <2>2
  <2>. QED
    BY <1>2, <1>3, <1>9, <2>2, <2>9, <2>10, StepKeeps DEF T
<1>10. ASSUME NEW cmd \in {"CLOSE", "RELEASE"}, CommandAsync(a, y, cmd), todo' = <<Step("wait", a)>> \o Rest
       PROVE  Inv'
  <2>. DEFINE w == [y EXCEPT !.command = cmd, !.at = IF @ = "none" THEN "loop" ELSE @]
  <2>1. /\ y \in Records /\ y.at = o.at /\ y.then = o.then /\ y.command = o.command /\ y.open = o.open
        /\ y.source = o.source /\ y.really = o.really /\ y.reopen = o.reopen /\ y.caught = o.caught
        /\ y.inloop = o.inloop /\ y.chunk = o.chunk /\ y.consumed = o.consumed /\ y.current = o.current
        /\ y.pipe = o.pipe /\ y.last = o.last /\ y.failed = o.failed /\ y.filter = o.filter /\ y.allow = o.allow
    BY <1>3 DEF Records
  <2>. HIDE DEF y, o
  <2>2. w.command = cmd
    BY <2>1 DEF Records
  <2>3. One("shift") \notin U /\ One("clear") \notin U /\ Replaces("wait", d)
    BY <1>6, StepFacts DEF Replaces
  <2>. HIDE DEF w, U, T
  <2>4. Expected(a, w, U, {Step("wait", a)})
    BY <1>7, <1>10, <2>2 DEF Expected
  <2>5. Fine(a, w, U, {Step("wait", a)}, Len(pipe), pushed, exists, FALSE)
    <3>1. y.allow /\ y.failed \in {o.failed, FALSE} /\ (o.filter = "null" => y.filter = "null")
          /\ cmd \in Commands /\ cmd # "NONE" /\ cmd # "DRAIN" /\ cmd # "OPEN"
      BY <1>8, <1>10, <2>1 DEF Commands
    <3>. QED
      BY <1>3, <1>6, <1>10, <2>1, <2>3, <2>4, <3>1, CommandFine DEF w
  <2>. QED
    BY <1>2, <1>3, <1>10, <2>3, <2>5, SendSwap DEF U, T, w
<1>. QED
  BY <1>4, <1>9, <1>10

\* After Cancel(), or after the last chunk was removed: the output may play again.
LEMMA LockAllowPlayKeeps ==
  ASSUME Inv, NEW a \in Outputs, LockAllowPlay(a)
  PROVE  Inv'
<1>. DEFINE o == ao[a]
            d == "allow"
            T == Left \ {Step(d, a)}
            x == [o EXCEPT !.allow = TRUE]
<1>1. d \in Kinds /\ Doing(d) /\ Head(todo).ao = a /\ PlayerUnchanged /\ d \notin Singles /\ todo' = Rest
  BY KindFacts DEF LockAllowPlay, Singles
<1>2. /\ todo # << >> /\ Head(todo) = Step(d, a)
      /\ \A s \in Left : s.do \in Behind(d)
      /\ Fine(a, o, Left, Now, Len(pipe), pushed, exists, a \in asleep)
      /\ o \in Records /\ Local(a, o) /\ o.command = "NONE"
  BY <1>1, OutputStep
<1>3. \A s \in Left : s.do = "allow"
  BY <1>2 DEF Behind
<1>4. /\ One("shift") \notin Left /\ One("clear") \notin Left /\ One("reset") \notin Left
      /\ One("push") \notin Left /\ Step("pause", a) \notin Left /\ Step("cancel", a) \notin Left
      /\ Step("play", a) \notin Left
  BY <1>3, StepFacts
<1>5. /\ One("shift") \notin T /\ One("clear") \notin T /\ One("reset") \notin T /\ One("push") \notin T
  BY <1>4
<1>6. ao' = [ao EXCEPT ![a].allow = TRUE] /\ asleep' = (IF o.open THEN asleep \ {a} ELSE asleep)
  BY DEF LockAllowPlay
<1>7. ao' = [ao EXCEPT ![a] = x] /\ (asleep' = asleep \/ asleep' = asleep \ {a})
  BY <1>6
<1>8. (a \in asleep' => a \in asleep /\ ~o.open) /\ asleep' \subseteq asleep
  BY <1>6
<1>9. /\ x \in Records /\ x.command = o.command /\ x.reopen = o.reopen
      /\ x.at = o.at /\ x.open = o.open /\ x.source = o.source /\ x.chunk = o.chunk /\ x.consumed = o.consumed
      /\ x.current = o.current /\ x.last = o.last /\ x.pipe = o.pipe /\ x.allow = TRUE
      /\ x.interrupt = o.interrupt /\ x.caught = o.caught /\ x.then = o.then /\ x.woken = o.woken
      /\ x.really = o.really /\ x.inloop = o.inloop /\ x.failed = o.failed /\ x.filter = o.filter
  BY <1>2 DEF Records
<1>10. Data(a, o, Left, Len(pipe), pushed, exists) /\ Link(a, o, Left, Len(pipe))
       /\ Sleeper(a, o, Left, Len(pipe), pushed, a \in asleep)
  BY <1>2 DEF Fine
<1>. HIDE DEF x, o, T
<1>11. Local(a, x)
  BY <1>2, <1>9 DEF Local
<1>12. Expected(a, x, T, First(Rest)) /\ Link(a, x, T, Len(pipe))
  BY <1>2, <1>4, <1>9, <1>10 DEF Expected, Link
<1>13. Data(a, x, T, Len(pipe), pushed, exists)
  BY <1>2, <1>4, <1>9, <1>10 DEF Data, Idle
<1>14. Phase(a, x, T, Len(pipe), pushed)
  BY <1>5 DEF Phase, Closing, Clearing, Shifting
<1>15. Sleeper(a, x, T, Len(pipe), pushed, a \in asleep')
  BY <1>8, <1>9, <1>10 DEF Sleeper, CanPlay
<1>16. Fine(a, x, T, First(Rest), Len(pipe), pushed, exists, a \in asleep')
  BY <1>9, <1>11, <1>12, <1>13, <1>14, <1>15 DEF Fine
<1>. HIDE DEF d
<1>. QED
  BY <1>1, <1>2, <1>7, <1>16, StepKeeps DEF T

\* The end of the threads
LEMMA BeginDestroyKeeps ==
  ASSUME Inv, NEW a \in Outputs, BeginDestroy(a)
  PROVE  Inv'
<1>. DEFINE o == ao[a]
            d == "kill"
            T == Left \ {Step(d, a)}
            y == [o EXCEPT !.killed = TRUE, !.interrupt = TRUE]
            w == [y EXCEPT !.command = "KILL", !.at = IF @ = "none" THEN "loop" ELSE @]
<1>1. d \in Kinds /\ Doing(d) /\ Head(todo).ao = a /\ PlayerUnchanged /\ d \notin Singles \cup Marks /\ todo' = Rest
  BY KindFacts DEF BeginDestroy, Singles, Marks
<1>2. /\ todo # << >> /\ Head(todo) = Step(d, a)
      /\ \A s \in Left : s.do \in Behind(d)
      /\ Context(Left, Now, Len(pipe), pushed, exists)
      /\ Fine(a, o, Left, Now, Len(pipe), pushed, exists, a \in asleep)
      /\ o \in Records /\ Local(a, o) /\ o.command = "NONE"
  BY <1>1, OutputStep
<1>3. \A s \in Left : s.do \in {"kill", "join"}
  BY <1>2 DEF Behind
<1>4. /\ One("shift") \notin Left /\ One("clear") \notin T /\ One("shift") \notin T
      /\ Step("allow", a) \notin Left /\ Step("kill", a) \notin T
  BY <1>3, StepFacts
<1>5. o.allow
  BY <1>2, <1>4 DEF Fine, Link
<1>6. CommandAsync(a, y, "KILL") \/ UNCHANGED <<ao, asleep>>
  BY DEF BeginDestroy
<1>7. CASE UNCHANGED <<ao, asleep>>
  BY <1>1, <1>2, <1>7, Unmarked, NothingDone
<1>8. CASE CommandAsync(a, y, "KILL")
  <2>1. /\ y \in Records /\ y.at = o.at /\ y.then = o.then /\ y.command = o.command /\ y.open = o.open
        /\ y.source = o.source /\ y.really = o.really /\ y.reopen = o.reopen /\ y.caught = o.caught
        /\ y.inloop = o.inloop /\ y.chunk = o.chunk /\ y.consumed = o.consumed /\ y.current = o.current
        /\ y.pipe = o.pipe /\ y.last = o.last /\ y.failed = o.failed /\ y.filter = o.filter /\ y.allow = o.allow
    BY <1>2 DEF Records
  <2>. HIDE DEF y, o
  <2>2. w.command = "KILL"
    BY <2>1 DEF Records
  <2>3. \A s \in T : s.do \in {"kill", "join"}
    BY <1>3
  <2>. HIDE DEF w, T, d
  <2>4. Expected(a, w, T, First(Rest))
    BY <1>4, <2>2, <2>3 DEF Expected
  <2>5. Fine(a, w, T, First(Rest), Len(pipe), pushed, exists, FALSE)
    <3>1. y.allow /\ y.failed \in {o.failed, FALSE} /\ (o.filter = "null" => y.filter = "null")
          /\ "KILL" \in Commands /\ "KILL" # "NONE" /\ "KILL" # "DRAIN" /\ "KILL" # "OPEN"
      BY <1>5, <2>1 DEF Commands
    <3>. QED
      BY <1>2, <1>4, <2>1, <2>4, <3>1, CommandFine DEF w
  <2>. QED
    BY <1>1, <1>2, <1>8, <2>5, SendRest DEF T, w
<1>. QED
  BY <1>6, <1>7, <1>8

\* StopThread(): the thread has ended.
LEMMA JoinKeeps ==
  ASSUME Inv, NEW a \in Outputs, Join(a)
  PROVE  Inv'
<1>. DEFINE d == "join"
            T == Left \ {Step(d, a)}
<1>1. d \in Kinds /\ Doing(d) /\ Head(todo).ao = a /\ PlayerUnchanged /\ d \notin Singles \cup Marks /\ todo' = Rest
      /\ UNCHANGED <<ao, asleep>>
  BY KindFacts DEF Join, Singles, Marks
<1>2. /\ Now = {Step(d, a)} /\ \A s \in Left : s.do \in Behind(d)
      /\ Fine(a, ao[a], Left, Now, Len(pipe), pushed, exists, a \in asleep)
  BY <1>1, OutputStep
<1>3. \A s \in Left : s.do = "join"
  BY <1>2 DEF Behind
<1>4. ao[a].command \in {"NONE", "KILL"}
  BY <1>2, <1>3, StepFacts DEF Fine, Expected
<1>5. Expected(a, ao[a], T, First(Rest))
  <2>1. Step("kill", a) \notin T /\ \A s \in T : s.do \in {"kill", "join"}
    BY <1>3, StepFacts
  <2>. QED
    BY <1>4, <2>1 DEF Expected
<1>6. /\ \A f \in Marks : Step(f, a) \in T <=> Step(f, a) \in Left
      /\ \A f \in {"reset", "clear", "push", "shift"} : One(f) \in T <=> One(f) \in Left
  BY <1>1, StepFacts
<1>. HIDE DEF T
<1>7. Fine(a, ao[a], T, First(Rest), Len(pipe), pushed, exists, a \in asleep)
  BY <1>2, <1>5, <1>6, SameSteps
<1>. HIDE DEF d
<1>. QED
  BY <1>1, <1>7, NothingDone DEF T

\* CheckPipe(): an output that has consumed the first chunk
LEMMA ConsumedKeeps ==
  ASSUME Inv, NEW a \in Outputs, LockIsChunkConsumed(a), ~ao[a].open \/ IsConsumed(ao[a])
  PROVE  Inv'
<1>. DEFINE o == ao[a]
            d == "consumed"
            T == Left \ {Step(d, a)}
            n == Len(pipe)
            c == pushed
<1>1. d \in Kinds /\ Doing(d) /\ Head(todo).ao = a /\ PlayerUnchanged /\ d \notin Singles /\ todo' = Rest
      /\ UNCHANGED <<ao, asleep>>
  BY KindFacts DEF LockIsChunkConsumed, Singles
<1>2. /\ Program(Left, Now) /\ PlayerInv(Left) /\ Step(d, a) \in Left /\ Step(d, a).do = d
      /\ \A s \in Left : s.do \in Behind(d)
      /\ Fine(a, o, Left, Now, n, c, exists, a \in asleep)
      /\ o \in Records /\ Local(a, o) /\ o.command = "NONE"
  BY <1>1, OutputStep, StepFacts
<1>3. \A s \in Left : s.do \in {"consumed", "tail", "shift"}
  BY <1>2 DEF Behind
<1>4. /\ One("clear") \notin T /\ One("reset") \notin T /\ One("push") \notin T
      /\ Step("play", a) \notin Left
  BY <1>3, StepFacts
<1>5. /\ (One("shift") \in T <=> One("shift") \in Left) /\ (Step("tail", a) \in T <=> Step("tail", a) \in Left)
      /\ (Step("allow", a) \in T <=> Step("allow", a) \in Left)
      /\ (Step("pause", a) \in T <=> Step("pause", a) \in Left)
      /\ (Step("cancel", a) \in T <=> Step("cancel", a) \in Left)
      /\ (Step("play", a) \in T <=> Step("play", a) \in Left)
  BY StepFacts
<1>6. One("shift") \in Left /\ n # 0 /\ (n = 1 => Step("tail", a) \in Left)
  <2>1. One("shift") \in Left
    BY <1>2 DEF Program
  <2>. QED
    BY <1>2, <2>1 DEF PlayerInv
<1>7. PipeInv
  BY DEF Inv
<1>8. n \in Nat /\ c \in Nat /\ n <= c /\ pipe # << >> /\ Head(pipe) = c - n + 1
  BY <1>6, <1>7, PipeFacts
<1>9. o.open => o.chunk # 0 /\ o.chunk \in Nat /\ o.chunk > c - n /\ o.chunk <= c
                /\ (o.chunk # c - n + 1 \/ (o.consumed /\ n = 1))
  BY <1>2, <1>8 DEF Fine, Data, IsConsumed, Records
<1>10. Data(a, o, Left, n, c, exists) /\ Link(a, o, Left, n) /\ Sleeper(a, o, Left, n, c, a \in asleep)
  BY <1>2 DEF Fine
<1>. HIDE DEF o, T, n, c, d
<1>11. Shifting(a, o, T, n, c)
  <2>. SUFFICES ASSUME o.open
                PROVE  \/ n > 1 /\ o.chunk > c - n + 1
                       \/ n = 1 /\ Step("tail", a) \in T /\ o.chunk = c /\ o.consumed
    BY DEF Shifting
  <2>1. CASE n = 1
    <3>1. o.chunk = c /\ o.chunk = c - n + 1
      BY <1>8, <1>9, <2>1
    <3>. QED
      BY <1>5, <1>6, <1>9, <2>1, <3>1
  <2>2. CASE n # 1
    <3>1. n > 1
      BY <1>6, <1>8, <2>2
    <3>. QED
      BY <1>8, <1>9, <2>2, <3>1
  <2>. QED
    BY <2>1, <2>2
<1>12. Expected(a, o, T, First(Rest)) /\ Link(a, o, T, n)
  BY <1>2, <1>5, <1>10 DEF Expected, Link
<1>13. Data(a, o, T, n, c, exists)
  BY <1>5, <1>10 DEF Data
<1>14. Closing(a, o, T, n) /\ Clearing(a, o, T, n)
  BY <1>4 DEF Closing, Clearing
<1>15. Sleeper(a, o, T, n, c, a \in asleep)
  BY <1>5, <1>10 DEF Sleeper
<1>16. Fine(a, o, T, First(Rest), n, c, exists, a \in asleep)
  BY <1>2, <1>11, <1>12, <1>13, <1>14, <1>15 DEF Fine, Phase
<1>. QED
  BY <1>1, <1>16, NothingDone DEF T, n, c, o

\* The last chunk: the output lets it go, and waits until it is removed.
LEMMA LockClearTailChunkKeeps ==
  ASSUME Inv, NEW a \in Outputs, LockClearTailChunk(a)
  PROVE  Inv'
<1>. DEFINE o == ao[a]
            d == "tail"
            T == Left \ {Step(d, a)}
            n == Len(pipe)
            c == pushed
            x == [o EXCEPT !.chunk = 0, !.allow = FALSE]
<1>1. d \in Kinds /\ Doing(d) /\ Head(todo).ao = a /\ PlayerUnchanged /\ d \notin Singles /\ todo' = Rest
  BY KindFacts DEF LockClearTailChunk, Singles
<1>2. /\ todo # << >> /\ Head(todo) = Step(d, a)
      /\ Program(Left, Now) /\ PlayerInv(Left) /\ Step(d, a) \in Left /\ Step(d, a).do = d
      /\ \A s \in Left : s.do \in Behind(d)
      /\ Fine(a, o, Left, Now, n, c, exists, a \in asleep)
      /\ o \in Records /\ Local(a, o) /\ o.command = "NONE"
  BY <1>1, OutputStep, StepFacts
<1>3. \A s \in Left : s.do \in {"tail", "shift"}
  BY <1>2 DEF Behind
<1>4. /\ One("clear") \notin T /\ One("reset") \notin T /\ One("push") \notin T
      /\ Step("play", a) \notin Left /\ Step("allow", a) \notin Left
      /\ Step("pause", a) \notin Left /\ Step("cancel", a) \notin Left /\ Step("consumed", a) \notin Left
      /\ Step("tail", a) \notin T
  BY <1>3, StepFacts
<1>5. One("shift") \in Left /\ One("shift") \in T /\ n = 1
  <2>1. One("shift") \in Left /\ n = 1
    BY <1>2 DEF Program, PlayerInv
  <2>. QED
    BY <2>1, StepFacts
<1>6. PipeInv
  BY DEF Inv
<1>7. c \in Nat /\ c # 0
  BY <1>5, <1>6, PipeFacts
<1>8. Data(a, o, Left, n, c, exists) /\ Link(a, o, Left, n) /\ Sleeper(a, o, Left, n, c, a \in asleep)
      /\ Shifting(a, o, Left, n, c)
  BY <1>2 DEF Fine, Phase
<1>9. o.allow /\ ~(o.open /\ (o.interrupt \/ o.caught))
  BY <1>2, <1>4, <1>8 DEF Link
<1>10. CASE o.open
  <2>1. Set(a, x)
    BY <1>10 DEF LockClearTailChunk
  <2>2. ao' = [ao EXCEPT ![a] = x] /\ asleep' = asleep
    BY <2>1 DEF Set
  <2>3. /\ x \in Records /\ x.command = o.command /\ x.reopen = o.reopen
        /\ x.at = o.at /\ x.open = o.open /\ x.source = o.source /\ x.chunk = 0 /\ x.consumed = o.consumed
        /\ x.current = o.current /\ x.last = o.last /\ x.pipe = o.pipe /\ x.allow = FALSE
        /\ x.interrupt = o.interrupt /\ x.caught = o.caught /\ x.then = o.then /\ x.woken = o.woken
        /\ x.really = o.really /\ x.inloop = o.inloop /\ x.failed = o.failed /\ x.filter = o.filter
    BY <1>2 DEF Records
  <2>. HIDE DEF x, o, T, n, c
  <2>4. o.chunk = c /\ o.consumed
    BY <1>2, <1>4, <1>5, <1>8, <1>10 DEF Shifting
  <2>5. o.current = 0 /\ o.last = c
    BY <1>7, <1>8, <1>10, <2>4 DEF Data
  <2>6. Local(a, x)
    BY <1>2, <2>3 DEF Local
  <2>7. Expected(a, x, T, First(Rest)) /\ Link(a, x, T, n)
    BY <1>2, <1>4, <1>5, <1>9, <2>3 DEF Expected, Link
  <2>8. o.at \notin {"cancelling", "pausing"}
    BY <1>2 DEF Local
  <2>9. 0 <= c
    BY <1>5, <1>7
  <2>10. Data(a, x, T, n, c, exists)
    BY <1>2, <1>4, <1>5, <1>8, <2>3, <2>5, <2>8, <2>9 DEF Data
  <2>11. Phase(a, x, T, n, c)
    BY <1>4, <1>5, <2>3, <2>5 DEF Phase, Closing, Clearing, Shifting
  <2>12. Sleeper(a, x, T, n, c, a \in asleep)
    BY <1>2, <1>8, <2>3 DEF Sleeper, CanPlay
  <2>13. Fine(a, x, T, First(Rest), n, c, exists, a \in asleep)
    BY <2>3, <2>6, <2>7, <2>10, <2>11, <2>12 DEF Fine
  <2>14. (a \in asleep') = (a \in asleep)
    BY <2>2
  <2>. HIDE DEF d
  <2>. QED
    BY <1>1, <1>2, <2>2, <2>13, <2>14, StepKeeps DEF T, n, c
<1>11. CASE ~o.open
  <2>1. Set(a, o)
    BY <1>11 DEF LockClearTailChunk
  <2>2. ao' = [ao EXCEPT ![a] = o] /\ asleep' = asleep
    BY <2>1 DEF Set
  <2>. HIDE DEF o, T, n, c
  <2>3. Expected(a, o, T, First(Rest)) /\ Link(a, o, T, n)
    BY <1>2, <1>9 DEF Expected, Link
  <2>4. Data(a, o, T, n, c, exists)
    BY <1>8, <1>11 DEF Data
  <2>5. Phase(a, o, T, n, c)
    BY <1>11 DEF Phase, Closing, Clearing, Shifting
  <2>6. Sleeper(a, o, T, n, c, a \in asleep)
    BY <1>8, <1>11 DEF Sleeper, CanPlay
  <2>7. Fine(a, o, T, First(Rest), n, c, exists, a \in asleep)
    BY <1>2, <2>3, <2>4, <2>5, <2>6 DEF Fine
  <2>8. (a \in asleep') = (a \in asleep)
    BY <2>2
  <2>. HIDE DEF d
  <2>. QED
    BY <1>1, <1>2, <2>2, <2>7, <2>8, StepKeeps DEF T, n, c
<1>. QED
  BY <1>10, <1>11

----------------------------------------------------------------------------
(***************************************************************************)
(* The list of steps is exchanged as a whole.                              *)
(***************************************************************************)

\* An output with which no operation is concerned can be part of any other one.
LEMMA CalmFine ==
  ASSUME NEW a, NEW o, NEW S, NEW F, NEW n, NEW c, NEW e, NEW z, Fine(a, o, S, F, n, c, e, z),
         o.command = "NONE", NEW T, NEW G, NEW k, e => k,
         Step("allow", a) \notin S, Step("pause", a) \notin S, Step("cancel", a) \notin S,
         Step("play", a) \notin S, One("shift") \in S /\ n = 1 => Step("tail", a) \in S,
         One("reset") \in T => Step("close", a) \in T \/ Step("release", a) \in T,
         One("clear") \in T => Step("interruptCancel", a) \in T,
         One("push") \in T => Step("update", a) \in T,
         One("shift") \in T => Step("consumed", a) \in T
  PROVE  Fine(a, o, T, G, n, c, k, z)
<1>1. Local(a, o) /\ Link(a, o, S, n) /\ Data(a, o, S, n, c, e) /\ Sleeper(a, o, S, n, c, z) /\ o \in Records
  BY DEF Fine
<1>2. Expected(a, o, T, G) /\ Link(a, o, T, n)
  BY <1>1 DEF Expected, Link
<1>3. Data(a, o, T, n, c, k)
  BY <1>1 DEF Data
<1>4. Phase(a, o, T, n, c)
  BY DEF Phase, Closing, Clearing, Shifting
<1>5. Sleeper(a, o, T, n, c, z)
  BY <1>1 DEF Sleeper
<1>. QED
  BY <1>1, <1>2, <1>3, <1>4, <1>5 DEF Fine

\* No step is left.
LEMMA NoSteps ==
  /\ Sorted(<< >>) /\ Steps(<< >>) = {} /\ First(<< >>) = {} /\ Program({}, {})
<1>1. Sorted(<< >>) /\ Steps(<< >>) = {} /\ First(<< >>) = {}
  BY DEF Sorted, Steps, First
<1>2. \E K \in Programs : TRUE
  BY DEF Programs
<1>. QED
  BY <1>1, <1>2 DEF Program

\* CheckPipe() returns: an output has not consumed the first chunk.
LEMMA NotConsumedKeeps ==
  ASSUME Inv, NEW a \in Outputs, LockIsChunkConsumed(a), ~(~ao[a].open \/ IsConsumed(ao[a]))
  PROVE  Inv'
<1>1. "consumed" \in Kinds /\ Doing("consumed") /\ Head(todo).ao = a /\ PlayerUnchanged /\ todo' = << >>
      /\ UNCHANGED <<ao, asleep>>
  BY KindFacts DEF LockIsChunkConsumed
<1>2. /\ PlayerInv(Left) /\ NextIs(Left, Now, Step("consumed", a)) /\ Step("consumed", a) \in Left
      /\ \A s \in Left : s.do \in Behind("consumed")
  BY <1>1, OutputStep
<1>3. \A s \in Left : s.do \in {"consumed", "tail", "shift"}
  BY <1>2 DEF Behind
<1>4. Left' = {} /\ Now' = {} /\ Sorted(todo)' /\ Program(Left, Now)'
  BY <1>1, NoSteps DEF Left, Now
<1>5. pipe' = pipe /\ pushed' = pushed /\ exists' = exists /\ client' = client
  BY <1>1 DEF PlayerUnchanged
<1>6. PipeInv' /\ PlayerInv(Left)'
  BY <1>4, <1>5 DEF Inv, PipeInv, PlayerInv
<1>7. ASSUME NEW b \in Outputs PROVE Fine(b, ao[b], {}, {}, Len(pipe), pushed, exists, b \in asleep)
  <2>1. Fine(b, ao[b], Left, Now, Len(pipe), pushed, exists, b \in asleep)
    BY DEF Inv, FineNow
  <2>2. ao[b].command = "NONE"
    <3>1. Expected(b, ao[b], Left, Now) /\ Step("consumed", a).do = "consumed"
      BY <2>1, StepFacts DEF Fine
    <3>. QED
      BY <1>2, <3>1, NoCommand
  <2>3. /\ Step("allow", b) \notin Left /\ Step("pause", b) \notin Left /\ Step("cancel", b) \notin Left
        /\ Step("play", b) \notin Left
    BY <1>3, StepFacts
  <2>4. One("shift") \in Left /\ Len(pipe) = 1 => Step("tail", b) \in Left
    BY <1>2 DEF PlayerInv
  <2>. DEFINE T == {}
  <2>5. \A s : s \notin T
    OBVIOUS
  <2>6. exists => exists
    OBVIOUS
  <2>. HIDE DEF T
  <2>7. Fine(b, ao[b], T, T, Len(pipe), pushed, exists, b \in asleep)
    BY <2>1, <2>2, <2>3, <2>4, <2>5, <2>6, CalmFine
  <2>. QED
    BY <2>7 DEF T
<1>. QED
  BY <1>1, <1>4, <1>5, <1>6, <1>7, AllKeep

\* CheckPipe() asks an output whether it has consumed the first chunk.
LEMMA LockIsChunkConsumedKeeps ==
  ASSUME Inv, NEW a \in Outputs, LockIsChunkConsumed(a)
  PROVE  Inv'
  BY ConsumedKeeps, NotConsumedKeeps

----------------------------------------------------------------------------
(***************************************************************************)
(* The lists of the operations.                                            *)
(***************************************************************************)

EachOf(d) == {Step(d, a) : a \in Outputs}

\* The next step is one of the steps.
LEMMA FirstIn ==
  ASSUME NEW t, Sorted(t)
  PROVE  First(t) \subseteq Steps(t)
<1>1. CASE t = << >>
  BY <1>1 DEF First
<1>2. CASE t # << >>
  BY <1>2, RestFacts, ZenonT(60)
<1>. QED
  BY <1>1, <1>2

\* What a list has when the steps of all outputs, or a single one, come behind it
LEMMA ListGrows ==
  ASSUME NEW t, Sorted(t), NEW d \in Kinds, \A s \in Steps(t) : s.do # d /\ Rank(s.do) <= Rank(d)
  PROVE  /\ Sorted(t \o Each(d)) /\ Steps(t \o Each(d)) = Steps(t) \cup EachOf(d)
         /\ Sorted(t \o Once(d)) /\ Steps(t \o Once(d)) = Steps(t) \cup {One(d)}
<1>1. /\ Sorted(Each(d)) /\ Steps(Each(d)) = EachOf(d)
      /\ Sorted(Once(d)) /\ Steps(Once(d)) = {One(d)}
  BY EachFacts DEF EachOf
<1>2. \A u \in EachOf(d) \cup {One(d)} : u.do = d
  BY StepFacts DEF EachOf
<1>3. \A s \in Steps(t), u \in Steps(Each(d)) : s # u /\ Rank(s.do) <= Rank(u.do)
  BY <1>1, <1>2
<1>4. \A s \in Steps(t), u \in Steps(Once(d)) : s # u /\ Rank(s.do) <= Rank(u.do)
  BY <1>1, <1>2
<1>5. Sorted(t \o Each(d)) /\ Steps(t \o Each(d)) = Steps(t) \cup Steps(Each(d))
  BY <1>1, <1>3, JoinFacts
<1>6. Sorted(t \o Once(d)) /\ Steps(t \o Once(d)) = Steps(t) \cup Steps(Once(d))
  BY <1>1, <1>4, JoinFacts
<1>. QED
  BY <1>1, <1>5, <1>6

\* The steps of a list are those of one operation.
LEMMA ListProgram ==
  ASSUME NEW t, Sorted(t), NEW K \in Programs,
         \A s \in Steps(t) : s.do \in K /\ s.do \notin {"wait", "updated", "pause", "cancel"},
         \A s \in Steps(t) : s.do \in Singles => s = One(s.do),
         \A s \in Steps(t) : s.do \in {"enable", "interruptPause", "drain", "interruptCancel"}
           => One("waitAll") \in Steps(t),
         \A s \in Steps(t) : s.do = "interruptCancel" => One("clear") \in Steps(t),
         One("clear") \in Steps(t) => \A a \in Outputs : Step("allow", a) \in Steps(t),
         \A s \in Steps(t) : s.do \in {"consumed", "tail"} => One("shift") \in Steps(t),
         \A s \in Steps(t) : s.do \in {"close", "release"} => One("reset") \in Steps(t)
  PROVE  Program(Steps(t), First(t))
<1>1. First(t) \subseteq Steps(t)
  BY FirstIn
<1>2. Steps(t) \subseteq AllSteps
  <2>1. t \in Seq(AllSteps)
    BY DEF Sorted
  <2>2. \A i \in DOMAIN t : t[i] \in AllSteps
    BY <2>1, ElementOfSeq, LenProperties
  <2>. QED
    BY <2>2 DEF Steps
<1>3. \A a \in Outputs : Step("pause", a) \notin Steps(t) /\ Step("cancel", a) \notin Steps(t)
  BY StepFacts
<1>. QED
  BY <1>1, <1>2, <1>3 DEF Program, Singles

\* EnableDisable()
LEMMA EnableList ==
  /\ Sorted(Each("enable") \o Once("waitAll"))
  /\ Steps(Each("enable") \o Once("waitAll")) = EachOf("enable") \cup {One("waitAll")}
  /\ Program(EachOf("enable") \cup {One("waitAll")}, First(Each("enable") \o Once("waitAll")))
<1>. USE RankFacts, StepFacts
<1>0. \A d \in {"enable", "waitAll"} : d \in Kinds
  BY KindFacts
<1>k. /\ \A d, s : s \in EachOf(d) => s.do = d
      /\ \A d, s : s \in {One(d)} => s.do = d
  BY DEF EachOf
<1>1. Sorted(Each("enable")) /\ Steps(Each("enable")) = EachOf("enable")
  BY <1>0, EachFacts DEF EachOf
<1>2. \A s \in Steps(Each("enable")) : s.do # "waitAll" /\ Rank(s.do) <= Rank("waitAll")
  BY <1>k, <1>1
<1>3. Sorted(Each("enable") \o Once("waitAll"))
      /\ Steps(Each("enable") \o Once("waitAll")) = EachOf("enable") \cup {One("waitAll")}
  BY <1>0, <1>1, <1>2, ListGrows
<1>. DEFINE t == Each("enable") \o Once("waitAll")
            S == EachOf("enable") \cup {One("waitAll")}
<1>4. Sorted(t) /\ Steps(t) = S
  BY <1>3
<1>5. \A s \in S : s.do \in {"enable", "waitAll"}
  BY <1>k
<1>6. \A s \in S : s.do \in Singles => s = One(s.do)
  BY <1>k DEF Singles
<1>7. One("waitAll") \in S
  OBVIOUS
<1>. HIDE DEF t, S
<1>8. {"enable", "waitAll", "force", "updated", "wait", "opened"} \in Programs
  BY DEF Programs
<1>9. Program(Steps(t), First(t))
  BY <1>4, <1>5, <1>6, <1>7, <1>8, ListProgram
<1>. QED
  BY <1>4, <1>9 DEF t, S

\* Open()
LEMMA OpenList ==
  /\ Sorted(Each("enable") \o Once("waitAll") \o Each("force") \o Once("opened"))
  /\ Steps(Each("enable") \o Once("waitAll") \o Each("force") \o Once("opened"))
           = EachOf("enable") \cup {One("waitAll")} \cup EachOf("force") \cup {One("opened")}
  /\ Program(EachOf("enable") \cup {One("waitAll")} \cup EachOf("force") \cup {One("opened")},
             First(Each("enable") \o Once("waitAll") \o Each("force") \o Once("opened")))
<1>. USE RankFacts, StepFacts
<1>0. \A d \in {"enable", "waitAll", "force", "opened"} : d \in Kinds
  BY KindFacts
<1>k. /\ \A d, s : s \in EachOf(d) => s.do = d
      /\ \A d, s : s \in {One(d)} => s.do = d
  BY DEF EachOf
<1>1. Sorted(Each("enable")) /\ Steps(Each("enable")) = EachOf("enable")
  BY <1>0, EachFacts DEF EachOf
<1>2. \A s \in Steps(Each("enable")) : s.do # "waitAll" /\ Rank(s.do) <= Rank("waitAll")
  BY <1>k, <1>1
<1>3. Sorted(Each("enable") \o Once("waitAll"))
      /\ Steps(Each("enable") \o Once("waitAll")) = EachOf("enable") \cup {One("waitAll")}
  BY <1>0, <1>1, <1>2, ListGrows
<1>4. \A s \in Steps(Each("enable") \o Once("waitAll")) : s.do # "force" /\ Rank(s.do) <= Rank("force")
  BY <1>k, <1>3
<1>5. Sorted(Each("enable") \o Once("waitAll") \o Each("force"))
      /\ Steps(Each("enable") \o Once("waitAll") \o Each("force"))
           = EachOf("enable") \cup {One("waitAll")} \cup EachOf("force")
  BY <1>0, <1>3, <1>4, ListGrows
<1>6. \A s \in Steps(Each("enable") \o Once("waitAll") \o Each("force")) : s.do # "opened" /\ Rank(s.do) <= Rank("opened")
  BY <1>k, <1>5
<1>7. Sorted(Each("enable") \o Once("waitAll") \o Each("force") \o Once("opened"))
      /\ Steps(Each("enable") \o Once("waitAll") \o Each("force") \o Once("opened"))
           = EachOf("enable") \cup {One("waitAll")} \cup EachOf("force") \cup {One("opened")}
  BY <1>0, <1>5, <1>6, ListGrows
<1>. DEFINE t == Each("enable") \o Once("waitAll") \o Each("force") \o Once("opened")
            S == EachOf("enable") \cup {One("waitAll")} \cup EachOf("force") \cup {One("opened")}
<1>8. Sorted(t) /\ Steps(t) = S
  BY <1>7
<1>9. \A s \in S : s.do \in {"enable", "waitAll", "force", "opened"}
  BY <1>k
<1>10. \A s \in S : s.do \in Singles => s = One(s.do)
  BY <1>k DEF Singles
<1>11. One("waitAll") \in S /\ One("opened") \in S
  OBVIOUS
<1>. HIDE DEF t, S
<1>12. {"enable", "waitAll", "force", "updated", "wait", "opened"} \in Programs
  BY DEF Programs
<1>13. Program(Steps(t), First(t))
  BY <1>8, <1>9, <1>10, <1>11, <1>12, ListProgram
<1>. QED
  BY <1>8, <1>13 DEF t, S

\* Play()
LEMMA PlayList ==
  /\ Sorted(Each("update") \o Once("push"))
  /\ Steps(Each("update") \o Once("push")) = EachOf("update") \cup {One("push")}
  /\ Program(EachOf("update") \cup {One("push")}, First(Each("update") \o Once("push")))
<1>. USE RankFacts, StepFacts
<1>0. \A d \in {"update", "push"} : d \in Kinds
  BY KindFacts
<1>k. /\ \A d, s : s \in EachOf(d) => s.do = d
      /\ \A d, s : s \in {One(d)} => s.do = d
  BY DEF EachOf
<1>1. Sorted(Each("update")) /\ Steps(Each("update")) = EachOf("update")
  BY <1>0, EachFacts DEF EachOf
<1>2. \A s \in Steps(Each("update")) : s.do # "push" /\ Rank(s.do) <= Rank("push")
  BY <1>k, <1>1
<1>3. Sorted(Each("update") \o Once("push"))
      /\ Steps(Each("update") \o Once("push")) = EachOf("update") \cup {One("push")}
  BY <1>0, <1>1, <1>2, ListGrows
<1>. DEFINE t == Each("update") \o Once("push")
            S == EachOf("update") \cup {One("push")}
<1>4. Sorted(t) /\ Steps(t) = S
  BY <1>3
<1>5. \A s \in S : s.do \in {"update", "push"}
  BY <1>k
<1>6. \A s \in S : s.do \in Singles => s = One(s.do)
  BY <1>k DEF Singles
<1>7. One("push") \in S
  OBVIOUS
<1>. HIDE DEF t, S
<1>8. {"update", "updated", "wait", "push"} \in Programs
  BY DEF Programs
<1>9. Program(Steps(t), First(t))
  BY <1>4, <1>5, <1>6, <1>7, <1>8, ListProgram
<1>. QED
  BY <1>4, <1>9 DEF t, S

\* Play(), after the chunk was pushed
LEMMA PushList ==
  /\ Sorted(Each("play"))
  /\ Steps(Each("play")) = EachOf("play")
  /\ Program(EachOf("play"), First(Each("play")))
<1>. USE RankFacts, StepFacts
<1>0. \A d \in {"play"} : d \in Kinds
  BY KindFacts
<1>k. /\ \A d, s : s \in EachOf(d) => s.do = d
      /\ \A d, s : s \in {One(d)} => s.do = d
  BY DEF EachOf
<1>1. Sorted(Each("play")) /\ Steps(Each("play")) = EachOf("play")
  BY <1>0, EachFacts DEF EachOf
<1>. DEFINE t == Each("play")
            S == EachOf("play")
<1>2. Sorted(t) /\ Steps(t) = S
  BY <1>1
<1>3. \A s \in S : s.do \in {"play"}
  BY <1>k
<1>4. \A s \in S : s.do \in Singles => s = One(s.do)
  BY <1>k DEF Singles
<1>. HIDE DEF t, S
<1>5. {"play"} \in Programs
  BY DEF Programs
<1>6. Program(Steps(t), First(t))
  BY <1>2, <1>3, <1>4, <1>5, ListProgram
<1>. QED
  BY <1>2, <1>6 DEF t, S

\* CheckPipe()
LEMMA PeekList ==
  /\ Sorted(Once("peek"))
  /\ Steps(Once("peek")) = {One("peek")}
  /\ Program({One("peek")}, First(Once("peek")))
<1>. USE RankFacts, StepFacts
<1>0. \A d \in {"peek"} : d \in Kinds
  BY KindFacts
<1>k. /\ \A d, s : s \in EachOf(d) => s.do = d
      /\ \A d, s : s \in {One(d)} => s.do = d
  BY DEF EachOf
<1>1. Sorted(Once("peek")) /\ Steps(Once("peek")) = {One("peek")}
  BY <1>0, EachFacts DEF EachOf
<1>. DEFINE t == Once("peek")
            S == {One("peek")}
<1>2. Sorted(t) /\ Steps(t) = S
  BY <1>1
<1>3. \A s \in S : s.do \in {"peek"}
  BY <1>k
<1>4. \A s \in S : s.do \in Singles => s = One(s.do)
  BY <1>k DEF Singles
<1>5. One("peek") \in S
  OBVIOUS
<1>. HIDE DEF t, S
<1>6. {"peek"} \in Programs
  BY DEF Programs
<1>7. Program(Steps(t), First(t))
  BY <1>2, <1>3, <1>4, <1>5, <1>6, ListProgram
<1>. QED
  BY <1>2, <1>7 DEF t, S

\* CheckPipe(), with a pipe of several chunks
LEMMA ShiftList ==
  /\ Sorted(Each("consumed") \o Once("shift"))
  /\ Steps(Each("consumed") \o Once("shift")) = EachOf("consumed") \cup {One("shift")}
  /\ Program(EachOf("consumed") \cup {One("shift")}, First(Each("consumed") \o Once("shift")))
<1>. USE RankFacts, StepFacts
<1>0. \A d \in {"consumed", "shift"} : d \in Kinds
  BY KindFacts
<1>k. /\ \A d, s : s \in EachOf(d) => s.do = d
      /\ \A d, s : s \in {One(d)} => s.do = d
  BY DEF EachOf
<1>1. Sorted(Each("consumed")) /\ Steps(Each("consumed")) = EachOf("consumed")
  BY <1>0, EachFacts DEF EachOf
<1>2. \A s \in Steps(Each("consumed")) : s.do # "shift" /\ Rank(s.do) <= Rank("shift")
  BY <1>k, <1>1
<1>3. Sorted(Each("consumed") \o Once("shift"))
      /\ Steps(Each("consumed") \o Once("shift")) = EachOf("consumed") \cup {One("shift")}
  BY <1>0, <1>1, <1>2, ListGrows
<1>. DEFINE t == Each("consumed") \o Once("shift")
            S == EachOf("consumed") \cup {One("shift")}
<1>4. Sorted(t) /\ Steps(t) = S
  BY <1>3
<1>5. \A s \in S : s.do \in {"consumed", "shift"}
  BY <1>k
<1>6. \A s \in S : s.do \in Singles => s = One(s.do)
  BY <1>k DEF Singles
<1>7. One("shift") \in S
  OBVIOUS
<1>. HIDE DEF t, S
<1>8. {"consumed", "tail", "shift"} \in Programs
  BY DEF Programs
<1>9. Program(Steps(t), First(t))
  BY <1>4, <1>5, <1>6, <1>7, <1>8, ListProgram
<1>. QED
  BY <1>4, <1>9 DEF t, S

\* CheckPipe(), with the last chunk
LEMMA TailList ==
  /\ Sorted(Each("consumed") \o Each("tail") \o Once("shift"))
  /\ Steps(Each("consumed") \o Each("tail") \o Once("shift"))
           = EachOf("consumed") \cup EachOf("tail") \cup {One("shift")}
  /\ Program(EachOf("consumed") \cup EachOf("tail") \cup {One("shift")},
             First(Each("consumed") \o Each("tail") \o Once("shift")))
<1>. USE RankFacts, StepFacts
<1>0. \A d \in {"consumed", "tail", "shift"} : d \in Kinds
  BY KindFacts
<1>k. /\ \A d, s : s \in EachOf(d) => s.do = d
      /\ \A d, s : s \in {One(d)} => s.do = d
  BY DEF EachOf
<1>1. Sorted(Each("consumed")) /\ Steps(Each("consumed")) = EachOf("consumed")
  BY <1>0, EachFacts DEF EachOf
<1>2. \A s \in Steps(Each("consumed")) : s.do # "tail" /\ Rank(s.do) <= Rank("tail")
  BY <1>k, <1>1
<1>3. Sorted(Each("consumed") \o Each("tail"))
      /\ Steps(Each("consumed") \o Each("tail")) = EachOf("consumed") \cup EachOf("tail")
  BY <1>0, <1>1, <1>2, ListGrows
<1>4. \A s \in Steps(Each("consumed") \o Each("tail")) : s.do # "shift" /\ Rank(s.do) <= Rank("shift")
  BY <1>k, <1>3
<1>5. Sorted(Each("consumed") \o Each("tail") \o Once("shift"))
      /\ Steps(Each("consumed") \o Each("tail") \o Once("shift"))
           = EachOf("consumed") \cup EachOf("tail") \cup {One("shift")}
  BY <1>0, <1>3, <1>4, ListGrows
<1>. DEFINE t == Each("consumed") \o Each("tail") \o Once("shift")
            S == EachOf("consumed") \cup EachOf("tail") \cup {One("shift")}
<1>6. Sorted(t) /\ Steps(t) = S
  BY <1>5
<1>7. \A s \in S : s.do \in {"consumed", "tail", "shift"}
  BY <1>k
<1>8. \A s \in S : s.do \in Singles => s = One(s.do)
  BY <1>k DEF Singles
<1>9. One("shift") \in S
  OBVIOUS
<1>. HIDE DEF t, S
<1>10. {"consumed", "tail", "shift"} \in Programs
  BY DEF Programs
<1>11. Program(Steps(t), First(t))
  BY <1>6, <1>7, <1>8, <1>9, <1>10, ListProgram
<1>. QED
  BY <1>6, <1>11 DEF t, S

\* CheckPipe(), after the last chunk was removed
LEMMA AllowList ==
  /\ Sorted(Each("allow"))
  /\ Steps(Each("allow")) = EachOf("allow")
  /\ Program(EachOf("allow"), First(Each("allow")))
<1>. USE RankFacts, StepFacts
<1>0. \A d \in {"allow"} : d \in Kinds
  BY KindFacts
<1>k. /\ \A d, s : s \in EachOf(d) => s.do = d
      /\ \A d, s : s \in {One(d)} => s.do = d
  BY DEF EachOf
<1>1. Sorted(Each("allow")) /\ Steps(Each("allow")) = EachOf("allow")
  BY <1>0, EachFacts DEF EachOf
<1>. DEFINE t == Each("allow")
            S == EachOf("allow")
<1>2. Sorted(t) /\ Steps(t) = S
  BY <1>1
<1>3. \A s \in S : s.do \in {"allow"}
  BY <1>k
<1>4. \A s \in S : s.do \in Singles => s = One(s.do)
  BY <1>k DEF Singles
<1>. HIDE DEF t, S
<1>5. {"allow"} \in Programs
  BY DEF Programs
<1>6. Program(Steps(t), First(t))
  BY <1>2, <1>3, <1>4, <1>5, ListProgram
<1>. QED
  BY <1>2, <1>6 DEF t, S

\* Pause()
LEMMA PauseList ==
  /\ Sorted(Each("update") \o Each("interruptPause") \o Once("waitAll"))
  /\ Steps(Each("update") \o Each("interruptPause") \o Once("waitAll"))
           = EachOf("update") \cup EachOf("interruptPause") \cup {One("waitAll")}
  /\ Program(EachOf("update") \cup EachOf("interruptPause") \cup {One("waitAll")},
             First(Each("update") \o Each("interruptPause") \o Once("waitAll")))
<1>. USE RankFacts, StepFacts
<1>0. \A d \in {"update", "interruptPause", "waitAll"} : d \in Kinds
  BY KindFacts
<1>k. /\ \A d, s : s \in EachOf(d) => s.do = d
      /\ \A d, s : s \in {One(d)} => s.do = d
  BY DEF EachOf
<1>1. Sorted(Each("update")) /\ Steps(Each("update")) = EachOf("update")
  BY <1>0, EachFacts DEF EachOf
<1>2. \A s \in Steps(Each("update")) : s.do # "interruptPause" /\ Rank(s.do) <= Rank("interruptPause")
  BY <1>k, <1>1
<1>3. Sorted(Each("update") \o Each("interruptPause"))
      /\ Steps(Each("update") \o Each("interruptPause"))
           = EachOf("update") \cup EachOf("interruptPause")
  BY <1>0, <1>1, <1>2, ListGrows
<1>4. \A s \in Steps(Each("update") \o Each("interruptPause")) : s.do # "waitAll" /\ Rank(s.do) <= Rank("waitAll")
  BY <1>k, <1>3
<1>5. Sorted(Each("update") \o Each("interruptPause") \o Once("waitAll"))
      /\ Steps(Each("update") \o Each("interruptPause") \o Once("waitAll"))
           = EachOf("update") \cup EachOf("interruptPause") \cup {One("waitAll")}
  BY <1>0, <1>3, <1>4, ListGrows
<1>. DEFINE t == Each("update") \o Each("interruptPause") \o Once("waitAll")
            S == EachOf("update") \cup EachOf("interruptPause") \cup {One("waitAll")}
<1>6. Sorted(t) /\ Steps(t) = S
  BY <1>5
<1>7. \A s \in S : s.do \in {"update", "interruptPause", "waitAll"}
  BY <1>k
<1>8. \A s \in S : s.do \in Singles => s = One(s.do)
  BY <1>k DEF Singles
<1>9. One("waitAll") \in S
  OBVIOUS
<1>. HIDE DEF t, S
<1>10. {"update", "updated", "wait", "interruptPause", "pause", "waitAll"} \in Programs
  BY DEF Programs
<1>11. Program(Steps(t), First(t))
  BY <1>6, <1>7, <1>8, <1>9, <1>10, ListProgram
<1>. QED
  BY <1>6, <1>11 DEF t, S

\* Pause() without a pipe
LEMMA PauseOnlyList ==
  /\ Sorted(Each("interruptPause") \o Once("waitAll"))
  /\ Steps(Each("interruptPause") \o Once("waitAll"))
           = EachOf("interruptPause") \cup {One("waitAll")}
  /\ Program(EachOf("interruptPause") \cup {One("waitAll")},
             First(Each("interruptPause") \o Once("waitAll")))
<1>. USE RankFacts, StepFacts
<1>0. \A d \in {"interruptPause", "waitAll"} : d \in Kinds
  BY KindFacts
<1>k. /\ \A d, s : s \in EachOf(d) => s.do = d
      /\ \A d, s : s \in {One(d)} => s.do = d
  BY DEF EachOf
<1>1. Sorted(Each("interruptPause")) /\ Steps(Each("interruptPause")) = EachOf("interruptPause")
  BY <1>0, EachFacts DEF EachOf
<1>2. \A s \in Steps(Each("interruptPause")) : s.do # "waitAll" /\ Rank(s.do) <= Rank("waitAll")
  BY <1>k, <1>1
<1>3. Sorted(Each("interruptPause") \o Once("waitAll"))
      /\ Steps(Each("interruptPause") \o Once("waitAll"))
           = EachOf("interruptPause") \cup {One("waitAll")}
  BY <1>0, <1>1, <1>2, ListGrows
<1>. DEFINE t == Each("interruptPause") \o Once("waitAll")
            S == EachOf("interruptPause") \cup {One("waitAll")}
<1>4. Sorted(t) /\ Steps(t) = S
  BY <1>3
<1>5. \A s \in S : s.do \in {"interruptPause", "waitAll"}
  BY <1>k
<1>6. \A s \in S : s.do \in Singles => s = One(s.do)
  BY <1>k DEF Singles
<1>7. One("waitAll") \in S
  OBVIOUS
<1>. HIDE DEF t, S
<1>8. {"update", "updated", "wait", "interruptPause", "pause", "waitAll"} \in Programs
  BY DEF Programs
<1>9. Program(Steps(t), First(t))
  BY <1>4, <1>5, <1>6, <1>7, <1>8, ListProgram
<1>. QED
  BY <1>4, <1>9 DEF t, S

\* Drain()
LEMMA DrainList ==
  /\ Sorted(Each("drain") \o Once("waitAll"))
  /\ Steps(Each("drain") \o Once("waitAll")) = EachOf("drain") \cup {One("waitAll")}
  /\ Program(EachOf("drain") \cup {One("waitAll")}, First(Each("drain") \o Once("waitAll")))
<1>. USE RankFacts, StepFacts
<1>0. \A d \in {"drain", "waitAll"} : d \in Kinds
  BY KindFacts
<1>k. /\ \A d, s : s \in EachOf(d) => s.do = d
      /\ \A d, s : s \in {One(d)} => s.do = d
  BY DEF EachOf
<1>1. Sorted(Each("drain")) /\ Steps(Each("drain")) = EachOf("drain")
  BY <1>0, EachFacts DEF EachOf
<1>2. \A s \in Steps(Each("drain")) : s.do # "waitAll" /\ Rank(s.do) <= Rank("waitAll")
  BY <1>k, <1>1
<1>3. Sorted(Each("drain") \o Once("waitAll"))
      /\ Steps(Each("drain") \o Once("waitAll")) = EachOf("drain") \cup {One("waitAll")}
  BY <1>0, <1>1, <1>2, ListGrows
<1>. DEFINE t == Each("drain") \o Once("waitAll")
            S == EachOf("drain") \cup {One("waitAll")}
<1>4. Sorted(t) /\ Steps(t) = S
  BY <1>3
<1>5. \A s \in S : s.do \in {"drain", "waitAll"}
  BY <1>k
<1>6. \A s \in S : s.do \in Singles => s = One(s.do)
  BY <1>k DEF Singles
<1>7. One("waitAll") \in S
  OBVIOUS
<1>. HIDE DEF t, S
<1>8. {"drain", "waitAll"} \in Programs
  BY DEF Programs
<1>9. Program(Steps(t), First(t))
  BY <1>4, <1>5, <1>6, <1>7, <1>8, ListProgram
<1>. QED
  BY <1>4, <1>9 DEF t, S

\* Cancel()
LEMMA CancelList ==
  /\ Sorted(Each("interruptCancel") \o Once("waitAll") \o Once("clear") \o Each("allow"))
  /\ Steps(Each("interruptCancel") \o Once("waitAll") \o Once("clear") \o Each("allow"))
           = EachOf("interruptCancel") \cup {One("waitAll")} \cup {One("clear")} \cup EachOf("allow")
  /\ Program(EachOf("interruptCancel") \cup {One("waitAll")} \cup {One("clear")} \cup EachOf("allow"),
             First(Each("interruptCancel") \o Once("waitAll") \o Once("clear") \o Each("allow")))
<1>. USE RankFacts, StepFacts
<1>0. \A d \in {"interruptCancel", "waitAll", "clear", "allow"} : d \in Kinds
  BY KindFacts
<1>k. /\ \A d, s : s \in EachOf(d) => s.do = d
      /\ \A d, s : s \in {One(d)} => s.do = d
  BY DEF EachOf
<1>1. Sorted(Each("interruptCancel")) /\ Steps(Each("interruptCancel")) = EachOf("interruptCancel")
  BY <1>0, EachFacts DEF EachOf
<1>2. \A s \in Steps(Each("interruptCancel")) : s.do # "waitAll" /\ Rank(s.do) <= Rank("waitAll")
  BY <1>k, <1>1
<1>3. Sorted(Each("interruptCancel") \o Once("waitAll"))
      /\ Steps(Each("interruptCancel") \o Once("waitAll"))
           = EachOf("interruptCancel") \cup {One("waitAll")}
  BY <1>0, <1>1, <1>2, ListGrows
<1>4. \A s \in Steps(Each("interruptCancel") \o Once("waitAll")) : s.do # "clear" /\ Rank(s.do) <= Rank("clear")
  BY <1>k, <1>3
<1>5. Sorted(Each("interruptCancel") \o Once("waitAll") \o Once("clear"))
      /\ Steps(Each("interruptCancel") \o Once("waitAll") \o Once("clear"))
           = EachOf("interruptCancel") \cup {One("waitAll")} \cup {One("clear")}
  BY <1>0, <1>3, <1>4, ListGrows
<1>6. \A s \in Steps(Each("interruptCancel") \o Once("waitAll") \o Once("clear")) : s.do # "allow" /\ Rank(s.do) <= Rank("allow")
  BY <1>k, <1>5
<1>7. Sorted(Each("interruptCancel") \o Once("waitAll") \o Once("clear") \o Each("allow"))
      /\ Steps(Each("interruptCancel") \o Once("waitAll") \o Once("clear") \o Each("allow"))
           = EachOf("interruptCancel") \cup {One("waitAll")} \cup {One("clear")} \cup EachOf("allow")
  BY <1>0, <1>5, <1>6, ListGrows
<1>. DEFINE t == Each("interruptCancel") \o Once("waitAll") \o Once("clear") \o Each("allow")
            S == EachOf("interruptCancel") \cup {One("waitAll")} \cup {One("clear")} \cup EachOf("allow")
<1>8. Sorted(t) /\ Steps(t) = S
  BY <1>7
<1>9. \A s \in S : s.do \in {"interruptCancel", "waitAll", "clear", "allow"}
  BY <1>k
<1>10. \A s \in S : s.do \in Singles => s = One(s.do)
  BY <1>k DEF Singles
<1>11. One("waitAll") \in S /\ One("clear") \in S
  OBVIOUS
<1>12. \A a \in Outputs : Step("allow", a) \in S
  BY DEF EachOf
<1>. HIDE DEF t, S
<1>13. {"interruptCancel", "cancel", "waitAll", "clear", "allow"} \in Programs
  BY DEF Programs
<1>14. Program(Steps(t), First(t))
  BY <1>8, <1>9, <1>10, <1>11, <1>12, <1>13, ListProgram
<1>. QED
  BY <1>8, <1>14 DEF t, S

\* Close()
LEMMA CloseList ==
  /\ Sorted(Each("close") \o Once("reset"))
  /\ Steps(Each("close") \o Once("reset")) = EachOf("close") \cup {One("reset")}
  /\ Program(EachOf("close") \cup {One("reset")}, First(Each("close") \o Once("reset")))
<1>. USE RankFacts, StepFacts
<1>0. \A d \in {"close", "reset"} : d \in Kinds
  BY KindFacts
<1>k. /\ \A d, s : s \in EachOf(d) => s.do = d
      /\ \A d, s : s \in {One(d)} => s.do = d
  BY DEF EachOf
<1>1. Sorted(Each("close")) /\ Steps(Each("close")) = EachOf("close")
  BY <1>0, EachFacts DEF EachOf
<1>2. \A s \in Steps(Each("close")) : s.do # "reset" /\ Rank(s.do) <= Rank("reset")
  BY <1>k, <1>1
<1>3. Sorted(Each("close") \o Once("reset"))
      /\ Steps(Each("close") \o Once("reset")) = EachOf("close") \cup {One("reset")}
  BY <1>0, <1>1, <1>2, ListGrows
<1>. DEFINE t == Each("close") \o Once("reset")
            S == EachOf("close") \cup {One("reset")}
<1>4. Sorted(t) /\ Steps(t) = S
  BY <1>3
<1>5. \A s \in S : s.do \in {"close", "reset"}
  BY <1>k
<1>6. \A s \in S : s.do \in Singles => s = One(s.do)
  BY <1>k DEF Singles
<1>7. One("reset") \in S
  OBVIOUS
<1>. HIDE DEF t, S
<1>8. {"close", "wait", "reset", "kill", "join"} \in Programs
  BY DEF Programs
<1>9. Program(Steps(t), First(t))
  BY <1>4, <1>5, <1>6, <1>7, <1>8, ListProgram
<1>. QED
  BY <1>4, <1>9 DEF t, S

\* Release()
LEMMA ReleaseList ==
  /\ Sorted(Each("release") \o Once("reset"))
  /\ Steps(Each("release") \o Once("reset")) = EachOf("release") \cup {One("reset")}
  /\ Program(EachOf("release") \cup {One("reset")}, First(Each("release") \o Once("reset")))
<1>. USE RankFacts, StepFacts
<1>0. \A d \in {"release", "reset"} : d \in Kinds
  BY KindFacts
<1>k. /\ \A d, s : s \in EachOf(d) => s.do = d
      /\ \A d, s : s \in {One(d)} => s.do = d
  BY DEF EachOf
<1>1. Sorted(Each("release")) /\ Steps(Each("release")) = EachOf("release")
  BY <1>0, EachFacts DEF EachOf
<1>2. \A s \in Steps(Each("release")) : s.do # "reset" /\ Rank(s.do) <= Rank("reset")
  BY <1>k, <1>1
<1>3. Sorted(Each("release") \o Once("reset"))
      /\ Steps(Each("release") \o Once("reset")) = EachOf("release") \cup {One("reset")}
  BY <1>0, <1>1, <1>2, ListGrows
<1>. DEFINE t == Each("release") \o Once("reset")
            S == EachOf("release") \cup {One("reset")}
<1>4. Sorted(t) /\ Steps(t) = S
  BY <1>3
<1>5. \A s \in S : s.do \in {"release", "reset"}
  BY <1>k
<1>6. \A s \in S : s.do \in Singles => s = One(s.do)
  BY <1>k DEF Singles
<1>7. One("reset") \in S
  OBVIOUS
<1>. HIDE DEF t, S
<1>8. {"release", "wait", "reset"} \in Programs
  BY DEF Programs
<1>9. Program(Steps(t), First(t))
  BY <1>4, <1>5, <1>6, <1>7, <1>8, ListProgram
<1>. QED
  BY <1>4, <1>9 DEF t, S

\* Close(), and the end
LEMMA ExitList ==
  /\ Sorted(Each("close") \o Once("reset") \o Each("kill") \o Each("join"))
  /\ Steps(Each("close") \o Once("reset") \o Each("kill") \o Each("join"))
           = EachOf("close") \cup {One("reset")} \cup EachOf("kill") \cup EachOf("join")
  /\ Program(EachOf("close") \cup {One("reset")} \cup EachOf("kill") \cup EachOf("join"),
             First(Each("close") \o Once("reset") \o Each("kill") \o Each("join")))
<1>. USE RankFacts, StepFacts
<1>0. \A d \in {"close", "reset", "kill", "join"} : d \in Kinds
  BY KindFacts
<1>k. /\ \A d, s : s \in EachOf(d) => s.do = d
      /\ \A d, s : s \in {One(d)} => s.do = d
  BY DEF EachOf
<1>1. Sorted(Each("close")) /\ Steps(Each("close")) = EachOf("close")
  BY <1>0, EachFacts DEF EachOf
<1>2. \A s \in Steps(Each("close")) : s.do # "reset" /\ Rank(s.do) <= Rank("reset")
  BY <1>k, <1>1
<1>3. Sorted(Each("close") \o Once("reset"))
      /\ Steps(Each("close") \o Once("reset")) = EachOf("close") \cup {One("reset")}
  BY <1>0, <1>1, <1>2, ListGrows
<1>4. \A s \in Steps(Each("close") \o Once("reset")) : s.do # "kill" /\ Rank(s.do) <= Rank("kill")
  BY <1>k, <1>3
<1>5. Sorted(Each("close") \o Once("reset") \o Each("kill"))
      /\ Steps(Each("close") \o Once("reset") \o Each("kill"))
           = EachOf("close") \cup {One("reset")} \cup EachOf("kill")
  BY <1>0, <1>3, <1>4, ListGrows
<1>6. \A s \in Steps(Each("close") \o Once("reset") \o Each("kill")) : s.do # "join" /\ Rank(s.do) <= Rank("join")
  BY <1>k, <1>5
<1>7. Sorted(Each("close") \o Once("reset") \o Each("kill") \o Each("join"))
      /\ Steps(Each("close") \o Once("reset") \o Each("kill") \o Each("join"))
           = EachOf("close") \cup {One("reset")} \cup EachOf("kill") \cup EachOf("join")
  BY <1>0, <1>5, <1>6, ListGrows
<1>. DEFINE t == Each("close") \o Once("reset") \o Each("kill") \o Each("join")
            S == EachOf("close") \cup {One("reset")} \cup EachOf("kill") \cup EachOf("join")
<1>8. Sorted(t) /\ Steps(t) = S
  BY <1>7
<1>9. \A s \in S : s.do \in {"close", "reset", "kill", "join"}
  BY <1>k
<1>10. \A s \in S : s.do \in Singles => s = One(s.do)
  BY <1>k DEF Singles
<1>11. One("reset") \in S
  OBVIOUS
<1>. HIDE DEF t, S
<1>12. {"close", "wait", "reset", "kill", "join"} \in Programs
  BY DEF Programs
<1>13. Program(Steps(t), First(t))
  BY <1>8, <1>9, <1>10, <1>11, <1>12, ListProgram
<1>. QED
  BY <1>8, <1>13 DEF t, S

----------------------------------------------------------------------------
(***************************************************************************)
(* The steps that are about the pipe.                                      *)
(***************************************************************************)

\* A step that is no output's: the head of the list, and the commands
LEMMA SingleStep ==
  ASSUME Inv, NEW d \in Singles, Doing(d)
  PROVE  /\ todo # << >> /\ Head(todo) = One(d) /\ One(d) \in Left /\ NextIs(Left, Now, One(d))
         /\ \A s \in Left : s.do \in Behind(d)
         /\ Steps(Rest) = Left \ {One(d)} /\ Sorted(Rest) /\ First(Rest) \subseteq Steps(Rest)
         /\ Program(Left \ {One(d)}, First(Rest)) /\ PlayerInv(Left) /\ PipeInv
         /\ d # "waitAll" => \A b \in Outputs : ao[b].command = "NONE"
<1>1. todo # << >> /\ Head(todo).do = d
  BY DEF Doing
<1>2. /\ NextIs(Left, Now, Head(todo)) /\ Sorted(Rest) /\ Steps(Rest) = Left \ {Head(todo)}
      /\ First(Rest) \subseteq Steps(Rest) /\ \A s \in Left : s.do \in Behind(d)
  BY <1>1, HeadFacts
<1>3. Head(todo) \in Left /\ Program(Left, Now)
  BY <1>2 DEF NextIs
<1>4. Head(todo) = One(d)
  BY <1>1, <1>3 DEF Program, Singles
<1>5. Program(Left \ {One(d)}, First(Rest))
  BY <1>2, <1>4, ProgramRest
<1>6. ASSUME d # "waitAll", NEW b \in Outputs PROVE ao[b].command = "NONE"
  <2>1. Expected(b, ao[b], Left, Now)
    BY DEF Inv, FineNow, Fine
  <2>2. One(d).do = d
    BY StepFacts
  <2>. QED
    BY <1>2, <1>4, <1>6, <2>1, <2>2, NoCommand DEF Singles
<1>. QED
  BY <1>1, <1>2, <1>3, <1>4, <1>5, <1>6 DEF Inv

\* A list that begins a new operation, after one of a single step
LEMMA RestartKeeps ==
  ASSUME Inv, NEW d \in {"opened", "push", "peek"}, Doing(d), UNCHANGED <<ao, asleep>>,
         pipe' = pipe, pushed' = pushed, exists' = exists,
         Sorted(todo)', Program(Left, Now)', PipeInv', PlayerInv(Left)',
         \A b \in Outputs :
           /\ One("reset") \in Left' => Step("close", b) \in Left' \/ Step("release", b) \in Left'
           /\ One("clear") \in Left' => Step("interruptCancel", b) \in Left'
           /\ One("push") \in Left' => Step("update", b) \in Left'
           /\ One("shift") \in Left' => Step("consumed", b) \in Left'
  PROVE  Inv'
<1>1. \A s \in Left : s.do \in Behind(d)
  BY SingleStep DEF Singles
<1>2. \A s \in Left : s.do = d
  BY <1>1 DEF Behind
<1>3. ASSUME NEW b \in Outputs PROVE Fine(b, ao[b], Left', Now', Len(pipe), pushed, exists, b \in asleep)
  <2>1. Fine(b, ao[b], Left, Now, Len(pipe), pushed, exists, b \in asleep) /\ ao[b].command = "NONE"
    BY SingleStep DEF Inv, FineNow, Singles
  <2>2. /\ Step("allow", b) \notin Left /\ Step("pause", b) \notin Left /\ Step("cancel", b) \notin Left
        /\ Step("play", b) \notin Left /\ One("shift") \notin Left
    BY <1>2, StepFacts
  <2>3. exists => exists
    OBVIOUS
  <2>. QED
    BY <2>1, <2>2, <2>3, CalmFine
<1>. QED
  BY <1>3, AllKeep

\* No step is left after one of a single step.
LEMMA LastSingle ==
  ASSUME Inv, NEW d \in {"opened", "push", "peek", "shift"}, Doing(d)
  PROVE  Left = {One(d)} /\ Steps(Rest) = {}
<1>1. /\ One(d) \in Left /\ Program(Left, Now) /\ \A s \in Left : s.do \in Behind(d)
      /\ Steps(Rest) = Left \ {One(d)}
  BY SingleStep DEF Singles, NextIs
<1>2. \A s \in Left : s.do = d
  BY <1>1 DEF Behind
<1>3. \A s \in Left : s = One(d)
  BY <1>1, <1>2 DEF Program
<1>. QED
  BY <1>1, <1>3

\* Open(), after the outputs were opened
LEMMA OpenedKeeps ==
  ASSUME Inv, Opened
  PROVE  Inv'
<1>1. Doing("opened") /\ "opened" \in Singles
  BY DEF Opened, Singles
<1>2. PlayerInv(Left) /\ PipeInv /\ One("opened") \in Left /\ Sorted(Rest)
      /\ Program(Left \ {One("opened")}, First(Rest)) /\ Steps(Rest) = Left \ {One("opened")}
  BY <1>1, SingleStep
<1>3. exists
  BY <1>2, StepFacts DEF PlayerInv
<1>4. PICK failed \in BOOLEAN : /\ client' = [client EXCEPT !.open = ~failed, !.paused = failed]
                                /\ todo' = IF failed THEN CloseSteps ELSE Rest
  BY DEF Opened
<1>5. UNCHANGED <<ao, asleep>> /\ pipe' = pipe /\ pushed' = pushed /\ exists' = exists
  BY DEF Opened
<1>6. client' \in [open : BOOLEAN, paused : BOOLEAN, done : BOOLEAN] /\ (client'.open <=> ~failed)
  BY <1>2, <1>4 DEF PipeInv
<1>7. PipeInv'
  BY <1>2, <1>3, <1>5, <1>6 DEF PipeInv
<1>8. CASE failed
  <2>. DEFINE S == EachOf("close") \cup {One("reset")}
  <2>1. Sorted(todo') /\ Steps(todo') = S /\ Program(S, First(todo'))
    BY <1>4, <1>8, CloseList DEF CloseSteps
  <2>2. Left' = S /\ Now' = First(todo')
    BY <2>1 DEF Left, Now
  <2>3. \A s \in S : s.do \in {"close", "reset"}
    BY StepFacts DEF EachOf
  <2>4. \A b \in Outputs : Step("close", b) \in S
    BY DEF EachOf
  <2>. HIDE DEF S
  <2>5. /\ One("clear") \notin S /\ One("push") \notin S /\ One("shift") \notin S
        /\ \A b \in Outputs : Step("consumed", b) \notin S
    BY <2>3, StepFacts
  <2>6. PlayerInv(Left)'
    BY <1>6, <1>8, <2>2, <2>3, <2>5 DEF PlayerInv
  <2>. QED
    BY <1>1, <1>5, <1>7, <2>1, <2>2, <2>4, <2>5, <2>6, RestartKeeps
<1>9. CASE ~failed
  <2>1. todo' = Rest /\ Steps(Rest) = {}
    BY <1>1, <1>4, <1>9, LastSingle
  <2>2. Left' = {} /\ Now' = First(Rest)
    BY <2>1 DEF Left, Now
  <2>3. PlayerInv(Left)'
    BY <2>2 DEF PlayerInv
  <2>. QED
    BY <1>1, <1>2, <1>5, <1>7, <2>1, <2>2, <2>3, RestartKeeps
<1>. QED
  BY <1>8, <1>9

\* CheckPipe(): the first chunk
LEMMA PeekKeeps ==
  ASSUME Inv, Peek
  PROVE  Inv'
<1>1. Doing("peek") /\ "peek" \in Singles /\ UNCHANGED <<ao, asleep>> /\ PlayerUnchanged
  BY DEF Peek, Singles
<1>2. PlayerInv(Left) /\ PipeInv /\ Sorted(Rest)
      /\ Program(Left \ {One("peek")}, First(Rest)) /\ Steps(Rest) = Left \ {One("peek")}
  BY <1>1, SingleStep
<1>3. pipe' = pipe /\ pushed' = pushed /\ exists' = exists /\ client' = client
  BY <1>1 DEF PlayerUnchanged
<1>4. PipeInv' /\ (pipe = << >> <=> Len(pipe) = 0)
  BY <1>2, <1>3, PipeFacts DEF PipeInv
<1>5. CASE pipe = << >>
  <2>1. todo' = Rest /\ Steps(Rest) = {}
    BY <1>1, <1>5, LastSingle DEF Peek
  <2>2. Left' = {} /\ Now' = First(Rest)
    BY <2>1 DEF Left, Now
  <2>3. PlayerInv(Left)'
    BY <2>2 DEF PlayerInv
  <2>. QED
    BY <1>1, <1>2, <1>3, <1>4, <2>1, <2>2, <2>3, RestartKeeps
<1>6. ASSUME pipe # << >>,
             NEW S, Sorted(todo'), Steps(todo') = S, Program(S, First(todo')),
             \A s \in S : s.do \in {"consumed", "tail", "shift"},
             \A b \in Outputs : Step("consumed", b) \in S,
             \A s \in S : s.do = "tail" => Len(pipe) = 1,
             Len(pipe) = 1 => \A b \in Outputs : Step("tail", b) \in S
      PROVE  Inv'
  <2>1. Left' = S /\ Now' = First(todo')
    BY <1>6 DEF Left, Now
  <2>2. One("clear") \notin S /\ One("push") \notin S /\ One("reset") \notin S
    BY <1>6, StepFacts
  <2>3. PlayerInv(Left)'
    BY <1>3, <1>4, <1>6, <2>1, <2>2 DEF PlayerInv
  <2>. QED
    BY <1>1, <1>3, <1>4, <1>6, <2>1, <2>2, <2>3, RestartKeeps
<1>7. CASE pipe # << >> /\ Len(pipe) = 1
  <2>. DEFINE t == Each("consumed") \o Each("tail") \o Once("shift")
              S == EachOf("consumed") \cup EachOf("tail") \cup {One("shift")}
  <2>1. todo' = t
    BY <1>7 DEF Peek
  <2>2. Sorted(t) /\ Steps(t) = S /\ Program(S, First(t))
    BY TailList
  <2>3. \A s \in S : s.do \in {"consumed", "tail", "shift"}
    BY StepFacts DEF EachOf
  <2>4. \A b \in Outputs : Step("consumed", b) \in S /\ Step("tail", b) \in S
    BY DEF EachOf
  <2>. HIDE DEF t, S
  <2>. QED
    BY <1>6, <1>7, <2>1, <2>2, <2>3, <2>4
<1>8. CASE pipe # << >> /\ Len(pipe) # 1
  <2>. DEFINE t == Each("consumed") \o Once("shift")
              S == EachOf("consumed") \cup {One("shift")}
  <2>1. todo' = t
    <3>1. todo' = Each("consumed") \o << >> \o Once("shift")
      BY <1>8 DEF Peek
    <3>2. Each("consumed") \in Seq(AllSteps)
      BY EachFacts, KindFacts DEF Sorted
    <3>3. Each("consumed") \o << >> = Each("consumed")
      BY <3>2, ConcatEmptySeq
    <3>. QED
      BY <3>1, <3>3
  <2>2. Sorted(t) /\ Steps(t) = S /\ Program(S, First(t))
    BY ShiftList
  <2>3. \A s \in S : s.do \in {"consumed", "shift"}
    BY StepFacts DEF EachOf
  <2>4. \A b \in Outputs : Step("consumed", b) \in S
    BY DEF EachOf
  <2>. HIDE DEF t, S
  <2>. QED
    BY <1>6, <1>8, <2>1, <2>2, <2>3, <2>4
<1>. QED
  BY <1>5, <1>7, <1>8

\* Play(), after the outputs were updated: every open output takes the chunk.
LEMMA PushFine ==
  ASSUME NEW a \in Outputs, NEW o, NEW S, NEW F, NEW n, NEW c, NEW e, NEW z, NEW T, NEW G, NEW m, NEW k,
         Context(S, F, n, c, e), Fine(a, o, S, F, n, c, e, z), o.command = "NONE",
         \A s \in S : s = One("push"), One("push") \in S, m = n + 1, k = c + 1,
         \A s \in T : s.do = "play", Step("play", a) \in T
  PROVE  Fine(a, o, T, G, m, k, e, z)
<1>1. /\ o \in Records /\ Local(a, o) /\ Link(a, o, S, n) /\ Data(a, o, S, n, c, e)
      /\ Sleeper(a, o, S, n, c, z)
  BY DEF Fine, Phase
<1>2. /\ Step("allow", a) \notin S /\ Step("pause", a) \notin S /\ Step("cancel", a) \notin S
      /\ One("shift") \notin S /\ Step("update", a) \notin S
  BY StepFacts
<1>3. One("reset") \notin T /\ One("clear") \notin T /\ One("push") \notin T /\ One("shift") \notin T
  BY StepFacts
<1>4. o.chunk \in Nat /\ o.current \in Nat /\ o.last \in Nat /\ n \in Nat /\ c \in Nat
  BY <1>1 DEF Records, Context
<1>5. k - m = c - n /\ \A i \in Nat : i <= c => i <= k
  BY <1>4
<1>6. o.at \notin {"cancelling", "pausing"}
  BY <1>1 DEF Local
<1>7. Expected(a, o, T, G) /\ Link(a, o, T, m)
  BY <1>1, <1>2 DEF Expected, Link
<1>8. Data(a, o, T, m, k, e)
  BY <1>1, <1>2, <1>4, <1>5, <1>6 DEF Data
<1>9. Phase(a, o, T, m, k)
  BY <1>3 DEF Phase, Closing, Clearing, Shifting
<1>10. Sleeper(a, o, T, m, k, z)
  BY <1>1 DEF Sleeper
<1>. QED
  BY <1>1, <1>7, <1>8, <1>9, <1>10 DEF Fine

\* Play(): a chunk is appended to the pipe.
LEMMA PushKeeps ==
  ASSUME Inv, Push
  PROVE  Inv'
<1>1. Doing("push") /\ "push" \in Singles /\ UNCHANGED <<ao, asleep, exists>>
  BY DEF Push, Singles
<1>2. PlayerInv(Left) /\ PipeInv /\ One("push") \in Left /\ \A b \in Outputs : ao[b].command = "NONE"
  BY <1>1, SingleStep
<1>3. Left = {One("push")}
  BY <1>1, LastSingle
<1>4. exists /\ pushed < MaxChunks
  BY <1>2, StepFacts DEF PlayerInv
<1>5. /\ Len(pipe) \in Nat /\ pushed \in Nat /\ pipe \in Seq(Nat) /\ Len(pipe) <= pushed
      /\ DOMAIN pipe = 1..Len(pipe) /\ MaxChunks \in Nat
      /\ client \in [open : BOOLEAN, paused : BOOLEAN, done : BOOLEAN]
  BY <1>2, PipeFacts, LenProperties, OutputsAssumption DEF PipeInv
<1>6. CASE ok
  <2>1. pipe' = Append(pipe, pushed + 1) /\ pushed' = pushed + 1 /\ todo' = Each("play") /\ client' = client
    BY <1>6 DEF Push
  <2>2. pipe' \in Seq(Nat) /\ Len(pipe') = Len(pipe) + 1 /\ DOMAIN pipe' = 1..(Len(pipe) + 1)
        /\ \A i \in 1..Len(pipe) + 1 : pipe'[i] = IF i <= Len(pipe) THEN pipe[i] ELSE pushed + 1
    <3>1. pushed + 1 \in Nat
      BY <1>5
    <3>2. /\ Append(pipe, pushed + 1) \in Seq(Nat) /\ Len(Append(pipe, pushed + 1)) = Len(pipe) + 1
          /\ \A i \in 1..Len(pipe) : Append(pipe, pushed + 1)[i] = pipe[i]
          /\ Append(pipe, pushed + 1)[Len(pipe) + 1] = pushed + 1
      BY <1>5, <3>1, AppendProperties
    <3>3. DOMAIN Append(pipe, pushed + 1) = 1..(Len(pipe) + 1)
      BY <3>2, LenProperties
    <3>. QED
      BY <1>5, <2>1, <3>2, <3>3
  <2>3. PipeInv'
    <3>1. \A i \in DOMAIN pipe' : pipe'[i] = pushed' - Len(pipe') + i
      <4>1. \A i \in 1..Len(pipe) : pipe[i] = pushed - Len(pipe) + i
        BY <1>2, <1>5 DEF PipeInv
      <4>2. ASSUME NEW i \in DOMAIN pipe' PROVE pipe'[i] = pushed - Len(pipe) + i
        <5>1. CASE i <= Len(pipe)
          BY <1>5, <2>2, <4>1, <5>1
        <5>2. CASE ~(i <= Len(pipe))
          <6>1. i = Len(pipe) + 1 /\ pipe'[i] = pushed + 1
            BY <1>5, <2>2, <5>2
          <6>. QED
            BY <1>5, <6>1
        <5>. QED
          BY <5>1, <5>2
      <4>3. pushed' - Len(pipe') = pushed - Len(pipe)
        BY <1>5, <2>1, <2>2
      <4>. QED
        BY <4>2, <4>3
    <3>2. pushed' \in 0..MaxChunks /\ Len(pipe') <= pushed'
      BY <1>4, <1>5, <2>1, <2>2
    <3>. QED
      BY <1>1, <1>2, <1>4, <2>1, <2>2, <3>1, <3>2 DEF PipeInv
  <2>. DEFINE S == EachOf("play")
  <2>4. Sorted(todo') /\ Steps(todo') = S /\ Program(S, First(todo'))
    BY <2>1, PushList
  <2>5. Left' = S /\ Now' = First(todo')
    BY <2>4 DEF Left, Now
  <2>6. \A s \in S : s.do = "play"
    BY StepFacts DEF EachOf
  <2>7. \A b \in Outputs : Step("play", b) \in S
    BY DEF EachOf
  <2>. HIDE DEF S
  <2>8. PlayerInv(Left)'
    <3>1. One("reset") \notin S /\ One("push") \notin S /\ One("shift") \notin S
          /\ \A b \in Outputs : Step("consumed", b) \notin S
      BY <2>6, StepFacts
    <3>. QED
      BY <2>5, <2>6, <3>1 DEF PlayerInv
  <2>9. ASSUME NEW b \in Outputs PROVE Fine(b, ao[b], Left', Now', Len(pipe'), pushed', exists', b \in asleep)
    <3>1. Fine(b, ao[b], Left, Now, Len(pipe), pushed, exists, b \in asleep)
      BY DEF Inv, FineNow
    <3>2. \A s \in Left : s = One("push")
      BY <1>3
    <3>3. Fine(b, ao[b], S, First(todo'), Len(pipe'), pushed', exists, b \in asleep)
      BY <1>2, <2>1, <2>2, <2>6, <2>7, <3>1, <3>2, InvContext, PushFine
    <3>. QED
      BY <1>1, <2>5, <3>3
  <2>. QED
    BY <1>1, <2>3, <2>4, <2>5, <2>8, <2>9, AllKeep
<1>7. CASE ~ok
  <2>1. pipe' = pipe /\ pushed' = pushed /\ todo' = << >> /\ client' = [client EXCEPT !.paused = TRUE]
    BY <1>7 DEF Push
  <2>2. Sorted(todo)' /\ Program(Left, Now)' /\ Left' = {}
    BY <2>1, NoSteps DEF Left, Now
  <2>3. client' \in [open : BOOLEAN, paused : BOOLEAN, done : BOOLEAN]
    BY <1>5, <2>1
  <2>4. PipeInv' /\ PlayerInv(Left)'
    <3>1. PipeInv'
      BY <1>1, <1>2, <1>4, <2>1, <2>3 DEF PipeInv
    <3>. QED
      BY <2>2, <3>1 DEF PlayerInv
  <2>. QED
    BY <1>1, <2>1, <2>2, <2>4, RestartKeeps
<1>. QED
  BY <1>6, <1>7

\* The first chunk is removed: every open output has gone on, or has let it go.
LEMMA ShiftFine ==
  ASSUME NEW a \in Outputs, NEW o, NEW S, NEW F, NEW n, NEW c, NEW e, NEW z, NEW T, NEW G, NEW m,
         Context(S, F, n, c, e), Fine(a, o, S, F, n, c, e, z), o.command = "NONE",
         \A s \in S : s = One("shift"), One("shift") \in S, n # 0, m = n - 1,
         \A s \in T : s.do \in {"allow", "peek"}, n = 1 => Step("allow", a) \in T
  PROVE  Fine(a, o, T, G, m, c, e, z)
<1>1. /\ o \in Records /\ Local(a, o) /\ Link(a, o, S, n) /\ Data(a, o, S, n, c, e) /\ Shifting(a, o, S, n, c)
      /\ Sleeper(a, o, S, n, c, z)
  BY DEF Fine, Phase
<1>2. /\ Step("allow", a) \notin S /\ Step("pause", a) \notin S /\ Step("cancel", a) \notin S
      /\ Step("consumed", a) \notin S /\ Step("tail", a) \notin S /\ Step("play", a) \notin S
  BY StepFacts
<1>3. One("reset") \notin T /\ One("clear") \notin T /\ One("push") \notin T /\ One("shift") \notin T
  BY StepFacts
<1>4. o.chunk \in Nat /\ o.current \in Nat /\ o.last \in Nat /\ n \in Nat /\ c \in Nat /\ m \in Nat
  <2>1. o.chunk \in Nat /\ o.current \in Nat /\ o.last \in Nat
    BY <1>1 DEF Records
  <2>2. n \in Nat /\ c \in Nat
    BY DEF Context
  <2>. QED
    BY <2>1, <2>2
<1>5. o.open => \/ n > 1 /\ o.chunk > c - n + 1
                \/ n = 1 /\ o.chunk = 0 /\ o.last = c /\ ~o.allow
  BY <1>1, <1>2 DEF Shifting
<1>6. (n > 1 => m # 0) /\ (n = 1 => m = 0 /\ c - m = c) /\ c - m = c - n + 1 /\ c - n + 1 > 0
      /\ (n = 1 \/ n > 1)
  BY <1>4 DEF Context
<1>7. o.at \notin {"cancelling", "pausing"}
  BY <1>1 DEF Local
<1>8. Expected(a, o, T, G) /\ Link(a, o, T, m)
  BY <1>1, <1>2, <1>5 DEF Expected, Link
<1>9. Data(a, o, T, m, c, e)
  <2>1. ASSUME o.open, o.chunk # 0 PROVE o.chunk > c - m
    BY <1>4, <1>5, <1>6, <2>1
  <2>2. ASSUME o.open, o.chunk = 0 PROVE o.current = 0 /\ o.last = c - m
    <3>1. n = 1 /\ o.last = c
      BY <1>4, <1>5, <1>6, <2>2
    <3>. QED
      BY <1>1, <1>6, <2>2, <3>1 DEF Data
  <2>. QED
    BY <1>1, <1>7, <2>1, <2>2 DEF Data
<1>10. Phase(a, o, T, m, c)
  BY <1>3 DEF Phase, Closing, Clearing, Shifting
<1>11. Sleeper(a, o, T, m, c, z)
  <2>1. ASSUME CanPlay(o), Nothing(o, n, c) PROVE Nothing(o, m, c)
    <3>1. o.open /\ o.allow
      BY <2>1 DEF CanPlay
    <3>2. o.chunk # 0
      BY <1>4, <1>5, <1>6, <3>1
    <3>. QED
      BY <2>1, <3>2 DEF Nothing
  <2>. QED
    BY <1>1, <1>2, <2>1 DEF Sleeper
<1>. QED
  BY <1>1, <1>8, <1>9, <1>10, <1>11 DEF Fine

\* CheckPipe(): the first chunk is removed from the pipe.
LEMMA ShiftKeeps ==
  ASSUME Inv, Shift
  PROVE  Inv'
<1>1. /\ Doing("shift") /\ "shift" \in Singles /\ UNCHANGED <<ao, asleep, exists>>
      /\ pipe' = Tail(pipe) /\ pushed' = pushed /\ client' = client
      /\ todo' = IF Len(pipe) = 1 THEN Each("allow") ELSE Once("peek")
  BY DEF Shift, Singles
<1>2. PlayerInv(Left) /\ PipeInv /\ One("shift") \in Left /\ \A b \in Outputs : ao[b].command = "NONE"
  BY <1>1, SingleStep
<1>3. Left = {One("shift")}
  BY <1>1, LastSingle
<1>4. Len(pipe) # 0
  BY <1>2 DEF PlayerInv
<1>5. /\ Len(pipe) \in Nat /\ pushed \in Nat /\ pipe \in Seq(Nat) /\ Len(pipe) <= pushed
      /\ DOMAIN pipe = 1..Len(pipe) /\ pipe # << >>
  BY <1>2, <1>4, PipeFacts, LenProperties DEF PipeInv
<1>6. pipe' \in Seq(Nat) /\ Len(pipe') = Len(pipe) - 1 /\ DOMAIN pipe' = 1..(Len(pipe) - 1)
      /\ \A i \in 1..(Len(pipe) - 1) : pipe'[i] = pipe[i + 1]
  BY <1>1, <1>5, HeadTailProperties, LenProperties
<1>7. PipeInv'
  <2>1. ASSUME NEW i \in DOMAIN pipe' PROVE pipe'[i] = pushed' - Len(pipe') + i
    <3>1. i + 1 \in DOMAIN pipe /\ pipe'[i] = pipe[i + 1]
      BY <1>5, <1>6
    <3>2. pipe[i + 1] = pushed - Len(pipe) + (i + 1)
      BY <1>2, <3>1 DEF PipeInv
    <3>. QED
      BY <1>1, <1>5, <1>6, <3>1, <3>2
  <2>2. Len(pipe') <= pushed'
    BY <1>1, <1>5, <1>6
  <2>3. ~exists' => Len(pipe') = 0
    BY <1>1, <1>2, <1>4 DEF PipeInv
  <2>. QED
    BY <1>1, <1>2, <1>6, <2>1, <2>2, <2>3 DEF PipeInv
<1>8. ASSUME NEW S, Sorted(todo'), Steps(todo') = S, Program(S, First(todo')),
             \A s \in S : s.do \in {"allow", "peek"},
             Len(pipe) = 1 => \A b \in Outputs : Step("allow", b) \in S
      PROVE  Inv'
  <2>1. Left' = S /\ Now' = First(todo')
    BY <1>8 DEF Left, Now
  <2>2. PlayerInv(Left)'
    <3>1. One("reset") \notin S /\ One("push") \notin S /\ One("shift") \notin S
          /\ \A b \in Outputs : Step("consumed", b) \notin S
      BY <1>8, StepFacts
    <3>. QED
      BY <1>8, <2>1, <3>1 DEF PlayerInv
  <2>3. ASSUME NEW b \in Outputs PROVE Fine(b, ao[b], Left', Now', Len(pipe'), pushed', exists', b \in asleep)
    <3>1. Fine(b, ao[b], Left, Now, Len(pipe), pushed, exists, b \in asleep)
      BY DEF Inv, FineNow
    <3>2. \A s \in Left : s = One("shift")
      BY <1>3
    <3>3. Fine(b, ao[b], S, First(todo'), Len(pipe'), pushed, exists, b \in asleep)
      BY <1>2, <1>4, <1>6, <1>8, <3>1, <3>2, InvContext, ShiftFine
    <3>. QED
      BY <1>1, <2>1, <3>3
  <2>. QED
    BY <1>1, <1>7, <1>8, <2>1, <2>2, <2>3, AllKeep
<1>9. CASE Len(pipe) = 1
  <2>. DEFINE S == EachOf("allow")
  <2>1. Sorted(todo') /\ Steps(todo') = S /\ Program(S, First(todo'))
    BY <1>1, <1>9, AllowList
  <2>2. (\A s \in S : s.do = "allow") /\ \A b \in Outputs : Step("allow", b) \in S
    BY StepFacts DEF EachOf
  <2>. HIDE DEF S
  <2>. QED
    BY <1>8, <2>1, <2>2
<1>10. CASE Len(pipe) # 1
  <2>. DEFINE S == {One("peek")}
  <2>1. Sorted(todo') /\ Steps(todo') = S /\ Program(S, First(todo'))
    BY <1>1, <1>10, PeekList
  <2>2. \A s \in S : s.do = "peek"
    BY StepFacts
  <2>. HIDE DEF S
  <2>. QED
    BY <1>8, <1>10, <2>1, <2>2
<1>. QED
  BY <1>9, <1>10

\* Cancel() empties the pipe: every open output has forgotten its chunk.
LEMMA ClearFine ==
  ASSUME NEW a \in Outputs, NEW o, NEW S, NEW F, NEW n, NEW c, NEW e, NEW z, NEW T, NEW G,
         Context(S, F, n, c, e), Fine(a, o, S, F, n, c, e, z), o.command = "NONE",
         \A s \in S : s.do \in {"clear", "allow"}, One("clear") \in S, T = S \ {One("clear")}
  PROVE  Fine(a, o, T, G, 0, c, e, z)
<1>1. /\ o \in Records /\ Local(a, o) /\ Link(a, o, S, n) /\ Data(a, o, S, n, c, e) /\ Clearing(a, o, S, n)
      /\ Sleeper(a, o, S, n, c, z)
  BY DEF Fine, Phase
<1>2. /\ Step("interruptCancel", a) \notin S /\ Step("cancel", a) \notin S /\ Step("pause", a) \notin S
      /\ One("shift") \notin S
  BY StepFacts
<1>3. One("reset") \notin T /\ One("clear") \notin T /\ One("push") \notin T /\ One("shift") \notin T
      /\ (Step("allow", a) \in S => Step("allow", a) \in T)
  BY StepFacts
<1>4. o.open => ~o.allow /\ o.chunk = 0 /\ o.current = 0 /\ (o.last = 0 \/ n = 0)
  BY <1>1, <1>2 DEF Clearing, Idle
<1>5. o.at \notin {"cancelling", "pausing"}
  BY <1>1 DEF Local
<1>6. c \in Nat /\ c - 0 = c
  BY DEF Context
<1>7. o.open => o.last = 0 \/ o.last = c
  <2>1. CASE n = 0
    BY <1>1, <1>2, <1>4, <1>6, <2>1 DEF Data
  <2>2. CASE n # 0
    BY <1>4, <2>2
  <2>. QED
    BY <2>1, <2>2
<1>8. Expected(a, o, T, G) /\ Link(a, o, T, 0)
  BY <1>1, <1>2, <1>3 DEF Expected, Link
<1>9. Data(a, o, T, 0, c, e)
  BY <1>1, <1>4, <1>5, <1>6, <1>7 DEF Data
<1>10. Phase(a, o, T, 0, c)
  BY <1>3 DEF Phase, Closing, Clearing, Shifting
<1>11. Sleeper(a, o, T, 0, c, z)
  BY <1>1, <1>4 DEF Sleeper, CanPlay
<1>. QED
  BY <1>1, <1>8, <1>9, <1>10, <1>11 DEF Fine

\* Close() and Release() free the pipe: only an output that is always on, and
\* pauses, may still have it.
LEMMA ResetFine ==
  ASSUME NEW a \in Outputs, NEW o, NEW S, NEW F, NEW n, NEW c, NEW e, NEW z, NEW T, NEW G,
         Context(S, F, n, c, e), Fine(a, o, S, F, n, c, e, z), o.command = "NONE",
         \A s \in S : s.do \in {"reset", "kill", "join"}, One("reset") \in S, T = S \ {One("reset")}
  PROVE  Fine(a, Stale(o), T, G, 0, c, FALSE, z)
<1>. DEFINE x == Stale(o)
<1>1. /\ o \in Records /\ Local(a, o) /\ Link(a, o, S, n) /\ Data(a, o, S, n, c, e) /\ Closing(a, o, S, n)
      /\ Sleeper(a, o, S, n, c, z)
  BY DEF Fine, Phase
<1>2. /\ Step("close", a) \notin S /\ Step("release", a) \notin S /\ Step("pause", a) \notin S
      /\ Step("cancel", a) \notin S /\ One("shift") \notin S /\ Step("allow", a) \notin S
  BY StepFacts
<1>3. One("reset") \notin T /\ One("clear") \notin T /\ One("push") \notin T /\ One("shift") \notin T
  BY StepFacts
<1>4. o.open => a \in AlwaysOn /\ o.at = "paused" /\ o.chunk = 0 /\ o.current = 0 /\ (o.last = 0 \/ n = 0)
  BY <1>1, <1>2 DEF Closing, Idle
<1>5. o.pipe \in Pointers /\ o.request \in Pointers
  BY <1>1 DEF Records
<1>6. /\ x \in Records
  <2>1. (IF o.pipe = "live" THEN "freed" ELSE o.pipe) \in Pointers
        /\ (IF o.request = "live" THEN "freed" ELSE o.request) \in Pointers
    BY <1>5 DEF Pointers
  <2>. QED
    BY <1>1, <2>1, Zenon DEF Stale, Records
<1>7. /\ x.command = o.command /\ x.reopen = o.reopen
      /\ x.at = o.at /\ x.open = o.open /\ x.source = o.source /\ x.chunk = o.chunk /\ x.consumed = o.consumed
      /\ x.current = o.current /\ x.last = o.last /\ x.pipe # "live" /\ x.allow = o.allow
      /\ x.interrupt = o.interrupt /\ x.caught = o.caught /\ x.then = o.then /\ x.woken = o.woken
      /\ x.really = o.really /\ x.inloop = o.inloop /\ x.failed = o.failed /\ x.filter = o.filter
  BY <1>1 DEF Stale, Records
<1>8. c \in Nat /\ c - 0 = c
  BY DEF Context
<1>9. o.open => o.last = 0 \/ o.last = c
  <2>1. CASE n = 0
    BY <1>1, <1>2, <1>4, <1>8, <2>1 DEF Data
  <2>2. CASE n # 0
    BY <1>4, <2>2
  <2>. QED
    BY <2>1, <2>2
<1>. HIDE DEF x
<1>10. Local(a, x)
  BY <1>1, <1>7 DEF Local
<1>11. Expected(a, x, T, G) /\ Link(a, x, T, 0)
  BY <1>1, <1>2, <1>7 DEF Expected, Link
<1>12. o.at \notin {"cancelling", "pausing"}
  BY <1>1 DEF Local
<1>13. Data(a, x, T, 0, c, FALSE)
  BY <1>1, <1>4, <1>7, <1>8, <1>9, <1>12 DEF Data
<1>14. Phase(a, x, T, 0, c)
  BY <1>3 DEF Phase, Closing, Clearing, Shifting
<1>15. Sleeper(a, x, T, 0, c, z)
  BY <1>1, <1>4, <1>7 DEF Sleeper, CanPlay
<1>. QED
  BY <1>6, <1>10, <1>11, <1>13, <1>14, <1>15 DEF Fine, x

\* The pipe is emptied by Cancel(), or freed by Close() and Release().
LEMMA ClearOrResetKeeps ==
  ASSUME Inv, ClearOrReset
  PROVE  Inv'
<1>1. PICK d \in {"clear", "reset"} : Doing(d)
  BY DEF ClearOrReset
<1>2. /\ d \in Singles /\ UNCHANGED asleep /\ pipe' = << >> /\ pushed' = pushed /\ client' = client
      /\ todo' = Rest
  BY <1>1 DEF ClearOrReset, Singles
<1>3. /\ PlayerInv(Left) /\ PipeInv /\ One(d) \in Left /\ Sorted(Rest)
      /\ \A s \in Left : s.do \in Behind(d)
      /\ Steps(Rest) = Left \ {One(d)} /\ Program(Left \ {One(d)}, First(Rest))
      /\ \A b \in Outputs : ao[b].command = "NONE"
  BY <1>1, <1>2, SingleStep
<1>. DEFINE T == Left \ {One(d)}
<1>4. Left' = T /\ Now' = First(Rest) /\ Sorted(todo)' /\ Program(Left, Now)'
  BY <1>2, <1>3 DEF Left, Now
<1>5. Len(pipe') = 0 /\ pipe' \in Seq(Nat) /\ DOMAIN pipe' = {}
  BY <1>2
<1>6. ASSUME exists' \in BOOLEAN, client.open => exists' PROVE PipeInv' /\ PlayerInv(Left)'
  <2>1. PipeInv'
    <3>1. pushed \in 0..MaxChunks /\ 0 <= pushed
      BY <1>3, OutputsAssumption DEF PipeInv
    <3>. QED
      BY <1>2, <1>3, <1>5, <1>6, <3>1 DEF PipeInv
  <2>2. \A s \in T : s.do \in {"allow", "kill", "join", "clear", "reset"}
    BY <1>3 DEF Behind
  <2>3. \A s \in T : s.do \in {"allow", "kill", "join"}
    BY <1>1, <1>3, <2>2, SingleStep DEF Behind, Program, NextIs
  <2>4. \A s \in T : s \in Left
    OBVIOUS
  <2>5. One("reset") \notin T /\ One("push") \notin T /\ One("shift") \notin T
        /\ \A b \in Outputs : Step("consumed", b) \notin T
    BY <2>3, StepFacts
  <2>. HIDE DEF T
  <2>6. PlayerInv(Left)'
    BY <1>2, <1>3, <1>4, <2>3, <2>4, <2>5 DEF PlayerInv
  <2>. QED
    BY <2>1, <2>6
<1>7. CASE d = "clear"
  <2>1. UNCHANGED <<ao, exists>>
    BY <1>1, <1>7 DEF ClearOrReset, Doing
  <2>2. \A s \in Left : s.do \in {"clear", "allow"}
    BY <1>3, <1>7 DEF Behind
  <2>3. exists \in BOOLEAN /\ (client.open => exists)
    BY <1>3 DEF PipeInv
  <2>4. ASSUME NEW b \in Outputs PROVE Fine(b, ao[b], Left', Now', Len(pipe'), pushed', exists', b \in asleep)
    <3>1. Fine(b, ao[b], Left, Now, Len(pipe), pushed, exists, b \in asleep)
      BY DEF Inv, FineNow
    <3>2. Fine(b, ao[b], T, First(Rest), 0, pushed, exists, b \in asleep)
      BY <1>3, <1>7, <2>2, <3>1, InvContext, ClearFine
    <3>. QED
      BY <1>2, <1>4, <1>5, <2>1, <3>2
  <2>. QED
    BY <1>2, <1>4, <1>6, <2>1, <2>3, <2>4, AllKeep
<1>8. CASE d = "reset"
  <2>1. exists' = FALSE /\ ao' = [b \in Outputs |-> Stale(ao[b])]
    BY <1>1, <1>8 DEF ClearOrReset, Doing
  <2>2. \A s \in Left : s.do \in {"reset", "kill", "join"}
    BY <1>3, <1>8 DEF Behind
  <2>3. ~client.open
    BY <1>3, <1>8 DEF PlayerInv
  <2>4. PipeInv' /\ PlayerInv(Left)'
    BY <1>6, <2>1, <2>3
  <2>5. ASSUME NEW b \in Outputs PROVE FineNow(b)' /\ Stale(ao[b]) \in Records
    <3>1. Fine(b, ao[b], Left, Now, Len(pipe), pushed, exists, b \in asleep)
      BY DEF Inv, FineNow
    <3>2. Fine(b, Stale(ao[b]), T, First(Rest), 0, pushed, FALSE, b \in asleep)
      BY <1>3, <1>8, <2>2, <3>1, InvContext, ResetFine
    <3>3. ao'[b] = Stale(ao[b]) /\ (b \in asleep') = (b \in asleep)
      BY <1>2, <2>1
    <3>4. Stale(ao[b]) \in Records
      BY <3>2 DEF Fine
    <3>. QED
      BY <1>2, <1>4, <1>5, <2>1, <3>2, <3>3, <3>4 DEF FineNow
  <2>6. ao' \in [Outputs -> Records] /\ asleep' \subseteq Outputs
    BY <1>2, <2>1, <2>5 DEF Inv
  <2>. QED
    BY <1>4, <2>4, <2>5, <2>6 DEF Inv
<1>. QED
  BY <1>7, <1>8

----------------------------------------------------------------------------
(***************************************************************************)
(* The player begins an operation.                                         *)
(***************************************************************************)

\* An output is told to end only after the player has come to its own end.
Killed == \A a \in Outputs : ao[a].command = "KILL" => client.done

\* Between two operations no command is pending.
LEMMA BetweenOperations ==
  ASSUME Inv, Killed, todo = << >>, ~client.done
  PROVE  /\ Left = {} /\ Now = {}
         /\ \A b \in Outputs : ao[b].command = "NONE"
<1>1. Left = {} /\ Now = {}
  BY NoSteps DEF Left, Now
<1>2. ASSUME NEW b \in Outputs PROVE ao[b].command = "NONE"
  <2>1. Expected(b, ao[b], {}, {})
    BY <1>1 DEF Inv, FineNow, Fine
  <2>2. ao[b].command # "KILL"
    BY DEF Killed
  <2>. QED
    BY <2>1, <2>2 DEF Expected
<1>. QED
  BY <1>1, <1>2

\* The first step of an operation: the list of its steps is set up.
LEMMA RunKeeps ==
  ASSUME Inv, Killed, NEW steps, Run(steps), pipe' = pipe, exists => exists',
         Sorted(steps), Program(Steps(steps), First(steps)), PipeInv', PlayerInv(Left)',
         \A b \in Outputs :
           /\ One("reset") \in Steps(steps) => Step("close", b) \in Steps(steps) \/ Step("release", b) \in Steps(steps)
           /\ One("clear") \in Steps(steps) => Step("interruptCancel", b) \in Steps(steps)
           /\ One("push") \in Steps(steps) => Step("update", b) \in Steps(steps)
           /\ One("shift") \in Steps(steps) => Step("consumed", b) \in Steps(steps)
  PROVE  Inv'
<1>1. todo = << >> /\ ~client.done /\ todo' = steps /\ UNCHANGED <<ao, asleep>> /\ pushed' = pushed
  BY DEF Run
<1>2. Left' = Steps(steps) /\ Now' = First(steps)
  BY <1>1 DEF Left, Now
<1>3. Left = {} /\ Now = {} /\ \A b \in Outputs : ao[b].command = "NONE"
  BY <1>1, BetweenOperations
<1>. DEFINE T == Steps(steps)
            G == First(steps)
<1>4. ASSUME NEW b \in Outputs
      PROVE  Fine(b, ao[b], Left', Now', Len(pipe'), pushed', exists', b \in asleep)
  <2>. DEFINE S == Left
              F == Now
              z == b \in asleep
  <2>1. Fine(b, ao[b], S, F, Len(pipe), pushed, exists, z) /\ ao[b].command = "NONE"
    BY <1>3 DEF Inv, FineNow
  <2>2. /\ Step("allow", b) \notin S /\ Step("pause", b) \notin S /\ Step("cancel", b) \notin S
        /\ Step("play", b) \notin S /\ One("shift") \notin S
    BY <1>3
  <2>3. /\ One("reset") \in T => Step("close", b) \in T \/ Step("release", b) \in T
        /\ One("clear") \in T => Step("interruptCancel", b) \in T
        /\ One("push") \in T => Step("update", b) \in T
        /\ One("shift") \in T => Step("consumed", b) \in T
    OBVIOUS
  <2>4. T = Left' /\ G = Now' /\ pipe' = pipe /\ pushed' = pushed
    BY <1>1, <1>2
  <2>. HIDE DEF S, F, z, T, G
  <2>5. Fine(b, ao[b], T, G, Len(pipe), pushed, exists', z)
    BY <2>1, <2>2, <2>3, CalmFine
  <2>. QED
    BY <2>4, <2>5 DEF z
<1>5. Sorted(todo)' /\ Program(Left, Now)'
  BY <1>1, <1>2
<1>. QED
  BY <1>1, <1>4, <1>5, AllKeep

\* What an operation does not touch
LEMMA SamePipe ==
  ASSUME Inv, pipe' = pipe, pushed' = pushed, exists' \in BOOLEAN, exists => exists',
         client' \in [open : BOOLEAN, paused : BOOLEAN, done : BOOLEAN],
         client'.open => client.open
  PROVE  PipeInv'
<1>1. /\ pipe \in Seq(Nat) /\ pushed \in 0..MaxChunks /\ Len(pipe) <= pushed
      /\ \A i \in DOMAIN pipe : pipe[i] = pushed - Len(pipe) + i
      /\ ~exists => Len(pipe) = 0
      /\ client.open => exists
  BY DEF Inv, PipeInv
<1>2. /\ pipe' \in Seq(Nat) /\ pushed' \in 0..MaxChunks /\ Len(pipe') <= pushed'
      /\ \A i \in DOMAIN pipe' : pipe'[i] = pushed' - Len(pipe') + i
  BY <1>1
<1>3. (~exists' => Len(pipe') = 0) /\ (client'.open => exists')
  BY <1>1
<1>. QED
  BY <1>2, <1>3 DEF PipeInv

\* The same, with the steps as a set
LEMMA StartKeeps ==
  ASSUME Inv, Killed, NEW t, NEW S, Run(t), pipe' = pipe, exists => exists',
         Sorted(t), Steps(t) = S, Program(S, First(t)), PipeInv', PlayerInv(S)',
         \A s \in S : /\ s.do = "reset" => \A b \in Outputs : Step("close", b) \in S \/ Step("release", b) \in S
                      /\ s.do = "clear" => \A b \in Outputs : Step("interruptCancel", b) \in S
                      /\ s.do = "push" => \A b \in Outputs : Step("update", b) \in S
                      /\ s.do # "shift"
  PROVE  Inv'
<1>1. todo' = t
  BY DEF Run
<1>2. Left' = S
  BY <1>1 DEF Left
<1>3. PlayerInv(Left)'
  BY <1>2 DEF PlayerInv
<1>4. ASSUME NEW b \in Outputs
      PROVE  /\ One("reset") \in S => Step("close", b) \in S \/ Step("release", b) \in S
             /\ One("clear") \in S => Step("interruptCancel", b) \in S
             /\ One("push") \in S => Step("update", b) \in S
             /\ One("shift") \in S => Step("consumed", b) \in S
  BY StepFacts
<1>. QED
  BY <1>3, <1>4, RunKeeps

\* the outputs that were switched on or off
LEMMA EnableDisableKeeps ==
  ASSUME Inv, Killed, EnableDisable
  PROVE  Inv'
<1>. DEFINE t == Each("enable") \o Once("waitAll")
            S == EachOf("enable") \cup {One("waitAll")}
<1>1. Run(t) /\ pipe' = pipe /\ exists' = exists /\ client' = client
  BY DEF Begin, EnableDisable
<1>2. Sorted(t) /\ Steps(t) = S /\ Program(S, First(t))
  BY EnableList
<1>3. \A s \in S : s.do \in {"enable", "waitAll"}
  BY StepFacts DEF EachOf
<1>. HIDE DEF t, S
<1>5. PipeInv /\ pushed' = pushed
  BY <1>1 DEF Inv, Run
<1>6. /\ exists' \in BOOLEAN /\ (exists => exists')
      /\ client' \in [open : BOOLEAN, paused : BOOLEAN, done : BOOLEAN] /\ (client'.open => client.open)
  BY <1>1, <1>5 DEF PipeInv
<1>7. PipeInv'
  BY <1>1, <1>5, <1>6, SamePipe
<1>9. PlayerInv(S)'
  BY <1>1, <1>3, <1>6, StepFacts DEF PlayerInv
<1>. QED
  BY <1>1, <1>2, <1>3, <1>5, <1>6, <1>7, <1>9, StartKeeps

\* Open(): the pipe is there before the outputs are updated
LEMMA OpenKeeps ==
  ASSUME Inv, Killed, Open
  PROVE  Inv'
<1>. DEFINE t == Each("enable") \o Once("waitAll") \o Each("force") \o Once("opened")
            S == EachOf("enable") \cup {One("waitAll")} \cup EachOf("force") \cup {One("opened")}
<1>1. Run(t) /\ pipe' = pipe /\ exists' = TRUE /\ client' = client
  BY DEF Begin, Open
<1>2. Sorted(t) /\ Steps(t) = S /\ Program(S, First(t))
  BY OpenList
<1>3. \A s \in S : s.do \in {"enable", "waitAll", "force", "opened"}
  BY StepFacts DEF EachOf
<1>. HIDE DEF t, S
<1>5. PipeInv /\ pushed' = pushed
  BY <1>1 DEF Inv, Run
<1>6. /\ exists' \in BOOLEAN /\ (exists => exists')
      /\ client' \in [open : BOOLEAN, paused : BOOLEAN, done : BOOLEAN] /\ (client'.open => client.open)
  BY <1>1, <1>5 DEF PipeInv
<1>7. PipeInv'
  BY <1>1, <1>5, <1>6, SamePipe
<1>9. PlayerInv(S)'
  BY <1>1, <1>3, <1>6, StepFacts DEF PlayerInv
<1>. QED
  BY <1>1, <1>2, <1>3, <1>5, <1>6, <1>7, <1>9, StartKeeps

\* CheckPipe() begins to look at the first chunk
LEMMA CheckPipeKeeps ==
  ASSUME Inv, Killed, CheckPipe
  PROVE  Inv'
<1>. DEFINE t == Once("peek")
            S == {One("peek")}
<1>1. Run(t) /\ pipe' = pipe /\ exists' = exists /\ client' = client
  BY DEF CheckPipe
<1>2. Sorted(t) /\ Steps(t) = S /\ Program(S, First(t))
  BY PeekList
<1>3. \A s \in S : s.do \in {"peek"}
  BY StepFacts DEF EachOf
<1>. HIDE DEF t, S
<1>5. PipeInv /\ pushed' = pushed
  BY <1>1 DEF Inv, Run
<1>6. /\ exists' \in BOOLEAN /\ (exists => exists')
      /\ client' \in [open : BOOLEAN, paused : BOOLEAN, done : BOOLEAN] /\ (client'.open => client.open)
  BY <1>1, <1>5 DEF PipeInv
<1>7. PipeInv'
  BY <1>1, <1>5, <1>6, SamePipe
<1>9. PlayerInv(S)'
  BY <1>1, <1>3, <1>6, StepFacts DEF PlayerInv
<1>. QED
  BY <1>1, <1>2, <1>3, <1>5, <1>6, <1>7, <1>9, StartKeeps

\* Drain() at the end of a song, when the pipe is empty
LEMMA DrainKeeps ==
  ASSUME Inv, Killed, Drain
  PROVE  Inv'
<1>. DEFINE t == Each("drain") \o Once("waitAll")
            S == EachOf("drain") \cup {One("waitAll")}
<1>1. Run(t) /\ pipe' = pipe /\ exists' = exists /\ client' = client /\ pipe = << >>
  BY DEF Begin, Drain
<1>2. Sorted(t) /\ Steps(t) = S /\ Program(S, First(t))
  BY DrainList
<1>3. \A s \in S : s.do \in {"drain", "waitAll"}
  BY StepFacts DEF EachOf
<1>. HIDE DEF t, S
<1>5. PipeInv /\ pushed' = pushed
  BY <1>1 DEF Inv, Run
<1>6. /\ exists' \in BOOLEAN /\ (exists => exists')
      /\ client' \in [open : BOOLEAN, paused : BOOLEAN, done : BOOLEAN] /\ (client'.open => client.open)
  BY <1>1, <1>5 DEF PipeInv
<1>7. PipeInv'
  BY <1>1, <1>5, <1>6, SamePipe
<1>8. Len(pipe') = 0
  BY <1>1, <1>5, PipeFacts
<1>9. PlayerInv(S)'
  BY <1>1, <1>3, <1>6, <1>8, StepFacts DEF PlayerInv
<1>. QED
  BY <1>1, <1>2, <1>3, <1>5, <1>6, <1>7, <1>9, StartKeeps

\* Cancel() interrupts all outputs
LEMMA CancelKeeps ==
  ASSUME Inv, Killed, Cancel
  PROVE  Inv'
<1>. DEFINE t == Each("interruptCancel") \o Once("waitAll") \o Once("clear") \o Each("allow")
            S == EachOf("interruptCancel") \cup {One("waitAll")} \cup {One("clear")} \cup EachOf("allow")
<1>1. Run(t) /\ pipe' = pipe /\ exists' = exists /\ client' = client
  BY DEF Begin, Cancel
<1>2. Sorted(t) /\ Steps(t) = S /\ Program(S, First(t))
  BY CancelList
<1>3. \A s \in S : s.do \in {"interruptCancel", "waitAll", "clear", "allow"}
  BY StepFacts DEF EachOf
<1>4. \A b \in Outputs : Step("interruptCancel", b) \in S
  BY DEF EachOf
<1>. HIDE DEF t, S
<1>5. PipeInv /\ pushed' = pushed
  BY <1>1 DEF Inv, Run
<1>6. /\ exists' \in BOOLEAN /\ (exists => exists')
      /\ client' \in [open : BOOLEAN, paused : BOOLEAN, done : BOOLEAN] /\ (client'.open => client.open)
  BY <1>1, <1>5 DEF PipeInv
<1>7. PipeInv'
  BY <1>1, <1>5, <1>6, SamePipe
<1>9. PlayerInv(S)'
  BY <1>1, <1>3, <1>6, StepFacts DEF PlayerInv
<1>. QED
  BY <1>1, <1>2, <1>3, <1>4, <1>5, <1>6, <1>7, <1>9, StartKeeps

\* Release(): the player's output is not open any more
LEMMA ReleaseKeeps ==
  ASSUME Inv, Killed, Release
  PROVE  Inv'
<1>. DEFINE t == Each("release") \o Once("reset")
            S == EachOf("release") \cup {One("reset")}
<1>1. Run(t) /\ pipe' = pipe /\ exists' = exists /\ client' = [client EXCEPT !.open = FALSE, !.paused = FALSE]
  BY DEF Begin, Release
<1>2. Sorted(t) /\ Steps(t) = S /\ Program(S, First(t))
  BY ReleaseList
<1>3. \A s \in S : s.do \in {"release", "reset"}
  BY StepFacts DEF EachOf
<1>4. \A b \in Outputs : Step("release", b) \in S
  BY DEF EachOf
<1>. HIDE DEF t, S
<1>5. PipeInv /\ pushed' = pushed
  BY <1>1 DEF Inv, Run
<1>6. /\ exists' \in BOOLEAN /\ (exists => exists')
      /\ client' \in [open : BOOLEAN, paused : BOOLEAN, done : BOOLEAN] /\ (client'.open => client.open)
      /\ ~client'.open
  BY <1>1, <1>5 DEF PipeInv
<1>7. PipeInv'
  BY <1>1, <1>5, <1>6, SamePipe
<1>9. PlayerInv(S)'
  BY <1>1, <1>3, <1>6, StepFacts DEF PlayerInv
<1>. QED
  BY <1>1, <1>2, <1>3, <1>4, <1>5, <1>6, <1>7, <1>9, StartKeeps

\* Close() and the destructor
LEMMA ExitKeeps ==
  ASSUME Inv, Killed, Exit
  PROVE  Inv'
<1>. DEFINE t == Each("close") \o Once("reset") \o Each("kill") \o Each("join")
            S == EachOf("close") \cup {One("reset")} \cup EachOf("kill") \cup EachOf("join")
<1>1. Run(t) /\ pipe' = pipe /\ exists' = exists /\ client' = [open |-> FALSE, paused |-> FALSE, done |-> TRUE]
  BY DEF Begin, Exit, CloseSteps
<1>2. Sorted(t) /\ Steps(t) = S /\ Program(S, First(t))
  BY ExitList
<1>3. \A s \in S : s.do \in {"close", "reset", "kill", "join"}
  BY StepFacts DEF EachOf
<1>4. \A b \in Outputs : Step("close", b) \in S
  BY DEF EachOf
<1>. HIDE DEF t, S
<1>5. PipeInv /\ pushed' = pushed
  BY <1>1 DEF Inv, Run
<1>6. /\ exists' \in BOOLEAN /\ (exists => exists')
      /\ client' \in [open : BOOLEAN, paused : BOOLEAN, done : BOOLEAN] /\ (client'.open => client.open)
      /\ ~client'.open
      /\ client'.done
  BY <1>1, <1>5 DEF PipeInv
<1>7. PipeInv'
  BY <1>1, <1>5, <1>6, SamePipe
<1>9. PlayerInv(S)'
  BY <1>1, <1>3, <1>6, StepFacts DEF PlayerInv
<1>. QED
  BY <1>1, <1>2, <1>3, <1>4, <1>5, <1>6, <1>7, <1>9, StartKeeps

\* Play(): the player's output is open, so there is a pipe.
LEMMA PlayKeeps ==
  ASSUME Inv, Killed, Play
  PROVE  Inv'
<1>. DEFINE t == Each("update") \o Once("push")
            S == EachOf("update") \cup {One("push")}
<1>0. PipeInv
  BY DEF Inv
<1>1. Run(t) /\ pipe' = pipe /\ exists' = exists /\ client' = client /\ pushed < MaxChunks /\ exists
  BY <1>0 DEF Play, Update, PipeInv
<1>2. Sorted(t) /\ Steps(t) = S /\ Program(S, First(t))
  BY PlayList
<1>3. \A s \in S : s.do \in {"update", "push"}
  BY StepFacts DEF EachOf
<1>4. \A b \in Outputs : Step("update", b) \in S
  BY DEF EachOf
<1>. HIDE DEF t, S
<1>5. pushed' = pushed
  BY <1>1 DEF Run
<1>6. /\ exists' \in BOOLEAN /\ (exists => exists')
      /\ client' \in [open : BOOLEAN, paused : BOOLEAN, done : BOOLEAN] /\ (client'.open => client.open)
  BY <1>0, <1>1 DEF PipeInv
<1>7. PipeInv'
  BY <1>1, <1>5, <1>6, SamePipe
<1>8. PlayerInv(S)'
  BY <1>1, <1>3, <1>5, StepFacts DEF PlayerInv
<1>. QED
  BY <1>1, <1>2, <1>3, <1>4, <1>6, <1>7, <1>8, StartKeeps

\* Pause(): the outputs are updated first if there is a pipe.
LEMMA PauseKeeps ==
  ASSUME Inv, Killed, Pause
  PROVE  Inv'
<1>0. PipeInv
  BY DEF Inv
<1>1. /\ Run(Update("update") \o Each("interruptPause") \o Once("waitAll"))
      /\ pipe' = pipe /\ exists' = exists /\ client' = [client EXCEPT !.paused = TRUE]
  BY DEF Pause, Begin
<1>2. pushed' = pushed
  BY <1>1 DEF Run
<1>3. /\ exists' \in BOOLEAN /\ (exists => exists')
      /\ client' \in [open : BOOLEAN, paused : BOOLEAN, done : BOOLEAN] /\ (client'.open => client.open)
  BY <1>0, <1>1 DEF PipeInv
<1>4. PipeInv'
  BY <1>1, <1>2, <1>3, SamePipe
<1>5. CASE exists
  <2>. DEFINE t == Each("update") \o Each("interruptPause") \o Once("waitAll")
              S == EachOf("update") \cup EachOf("interruptPause") \cup {One("waitAll")}
  <2>1. Run(t)
    BY <1>1, <1>5 DEF Update
  <2>2. Sorted(t) /\ Steps(t) = S /\ Program(S, First(t))
    BY PauseList
  <2>3. \A s \in S : s.do \in {"update", "interruptPause", "waitAll"}
    BY StepFacts DEF EachOf
  <2>. HIDE DEF t, S
  <2>4. PlayerInv(S)'
    BY <1>1, <1>5, <2>3, StepFacts DEF PlayerInv
  <2>. QED
    BY <1>1, <1>3, <1>4, <2>1, <2>2, <2>3, <2>4, StartKeeps
<1>6. CASE ~exists
  <2>. DEFINE t == Each("interruptPause") \o Once("waitAll")
              S == EachOf("interruptPause") \cup {One("waitAll")}
  <2>1. Run(t)
    <3>1. Run(<< >> \o Each("interruptPause") \o Once("waitAll"))
      BY <1>1, <1>6 DEF Update
    <3>2. Each("interruptPause") \in Seq(AllSteps)
      BY EachFacts, KindFacts DEF Sorted
    <3>3. << >> \o Each("interruptPause") = Each("interruptPause")
      BY <3>2, ConcatEmptySeq
    <3>. QED
      BY <3>1, <3>3
  <2>2. Sorted(t) /\ Steps(t) = S /\ Program(S, First(t))
    BY PauseOnlyList
  <2>3. \A s \in S : s.do \in {"interruptPause", "waitAll"}
    BY StepFacts DEF EachOf
  <2>. HIDE DEF t, S
  <2>4. PlayerInv(S)'
    BY <1>1, <2>3, StepFacts DEF PlayerInv
  <2>. QED
    BY <1>1, <1>3, <1>4, <2>1, <2>2, <2>3, <2>4, StartKeeps
<1>. QED
  BY <1>5, <1>6

\* The user's switch is looked at by later steps only.
LEMMA LockToggleEnabledKeeps ==
  ASSUME Inv, NEW a \in Outputs, LockToggleEnabled(a)
  PROVE  Inv'
<1>. DEFINE o == ao[a]
            x == [o EXCEPT !.enabled = ~o.enabled]
            S == Left
            F == Now
            n == Len(pipe)
            z == a \in asleep
<1>1. ao' = [ao EXCEPT ![a] = x] /\ UNCHANGED <<asleep, exists, pipe, todo, client, pushed>>
  BY DEF LockToggleEnabled
<1>2. Fine(a, o, S, F, n, pushed, exists, z) /\ o \in Records /\ ao \in [Outputs -> Records]
  BY DEF Inv, FineNow
<1>3. x \in Records
  BY <1>2, ZenonT(60) DEF Records
<1>4. /\ x.at = o.at /\ x.then = o.then /\ x.command = o.command /\ x.open = o.open
      /\ x.source = o.source /\ x.really = o.really /\ x.allow = o.allow /\ x.reopen = o.reopen
      /\ x.interrupt = o.interrupt /\ x.caught = o.caught /\ x.inloop = o.inloop
      /\ x.woken = o.woken /\ x.failed = o.failed /\ x.filter = o.filter /\ x.chunk = o.chunk /\ x.consumed = o.consumed
      /\ x.current = o.current /\ x.pipe = o.pipe /\ x.last = o.last
  BY <1>2 DEF Records
<1>5. Left' = S /\ Now' = F /\ Len(pipe') = n /\ pushed' = pushed /\ exists' = exists /\ asleep' = asleep
      /\ client' = client /\ pipe' = pipe /\ todo' = todo
  BY <1>1 DEF Left, Now
<1>6. Sorted(todo)' /\ Program(Left, Now)' /\ PipeInv' /\ PlayerInv(Left)'
  BY <1>5 DEF Inv, PipeInv, PlayerInv
<1>7. Fine(a, x, S, F, n, pushed, exists, z)
  <2>. HIDE DEF x, o, S, F, n, z
  <2>1. Local(a, x)
    BY <1>2, <1>4 DEF Fine, Local
  <2>2. Expected(a, x, S, F)
    BY <1>2, <1>4, SameCommand DEF Fine
  <2>3. Link(a, x, S, n)
    BY <1>2, <1>4 DEF Fine, Link
  <2>4. Data(a, x, S, n, pushed, exists)
    BY <1>2, <1>4 DEF Fine, Data, Idle
  <2>5. Phase(a, x, S, n, pushed)
    BY <1>2, <1>4 DEF Fine, Phase, Closing, Clearing, Shifting, Idle
  <2>6. Sleeper(a, x, S, n, pushed, z)
    BY <1>2, <1>4 DEF Fine, Sleeper, CanPlay, Nothing
  <2>. QED
    BY <1>3, <2>1, <2>2, <2>3, <2>4, <2>5, <2>6 DEF Fine
<1>8. ASSUME NEW b \in Outputs PROVE FineNow(b)'
  <2>1. CASE b = a
    <3>1. ao'[b] = x
      BY <1>1, <1>2, <2>1
    <3>2. (b \in asleep') = z
      BY <1>5, <2>1
    <3>. HIDE DEF x, S, F, n, z
    <3>. QED
      BY <1>5, <1>7, <2>1, <3>1, <3>2 DEF FineNow
  <2>2. CASE b # a
    <3>1. ao'[b] = ao[b] /\ FineNow(b)
      BY <1>1, <1>2, <2>2 DEF Inv
    <3>. QED
      BY <1>5, <3>1 DEF FineNow
  <2>. QED
    BY <2>1, <2>2
<1>9. ao' \in [Outputs -> Records] /\ asleep' \subseteq Outputs
  BY <1>1, <1>2, <1>3, <1>5 DEF Inv
<1>. QED
  BY <1>6, <1>8, <1>9 DEF Inv

\* Every operation begins in the invariant.
LEMMA OperationKeeps ==
  ASSUME Inv, Killed, Operation
  PROVE  Inv'
  BY EnableDisableKeeps, OpenKeeps, PlayKeeps, CheckPipeKeeps, PauseKeeps, DrainKeeps, CancelKeeps,
     ReleaseKeeps, ExitKeeps, LockToggleEnabledKeeps DEF Operation

\* Every step of an operation keeps the invariant.
LEMMA PlayerStepKeeps ==
  ASSUME Inv, PlayerStep
  PROVE  Inv'
  BY WaitAllKeeps, OpenedKeeps, PushKeeps, ClearOrResetKeeps, PeekKeeps, ShiftKeeps,
     LockEnableDisableAsyncKeeps, WaitForCommandKeeps, LockUpdateKeeps, LockPlayKeeps, InterruptKeeps,
     LockAsyncKeeps, LockCloseWaitKeeps, LockAllowPlayKeeps, LockIsChunkConsumedKeeps,
     LockClearTailChunkKeeps, BeginDestroyKeeps, JoinKeeps DEF PlayerStep

----------------------------------------------------------------------------
(***************************************************************************)
(* KILL is sent at the very end.                                           *)
(***************************************************************************)

\* What the steps of a thread make of the command of an output
LEMMA CommandOf ==
  ASSUME NEW o \in Records
  PROVE  /\ \A t : Close(o, t).command = o.command /\ CloseError(o, t).command = o.command
         /\ Finished(o).command = "NONE" /\ SourceCancel(o).command = o.command
         /\ Filling(o).command = o.command /\ PlayOrLeave(o).command = o.command
         /\ Consume(o).command = o.command
<1>1. \A t : Close(o, t).command = o.command /\ CloseError(o, t).command = o.command
  BY DEF Records, Close, CloseError
<1>2. Finished(o).command = "NONE" /\ SourceCancel(o).command = o.command /\ Consume(o).command = o.command
  BY DEF Records, Finished, SourceCancel, Consume
<1>3. Filling(o).command = o.command
  BY DEF Records, Filling
<1>4. PlayOrLeave(o).command = o.command
  BY DEF Records, PlayOrLeave
<1>. QED
  BY <1>1, <1>2, <1>3, <1>4

\* A thread leaves its command alone or finishes it.
LEMMA TaskFinishes ==
  ASSUME Inv, NEW a \in Outputs, Task(a)
  PROVE  \E x : /\ ao' = [ao EXCEPT ![a] = x]
                /\ x.command = ao[a].command \/ x.command = "NONE"
<1>. DEFINE o == ao[a]
            Good(x) == x.command = o.command \/ x.command = "NONE"
            Goal == \E x : ao' = [ao EXCEPT ![a] = x] /\ Good(x)
<1>1. o \in Records
  BY DEF Inv
<1>. USE DEF Go, Sleep, Fault, Set
<1>2. CASE TaskPlays(a)
  <2>1. PICK x \in {PlayOrLeave(o), Filling(o), [o EXCEPT !.woken = FALSE]} : ao' = [ao EXCEPT ![a] = x]
    BY <1>2 DEF TaskPlays
  <2>2. [o EXCEPT !.woken = FALSE].command = o.command
    BY <1>1 DEF Records
  <2>. QED
    BY <1>1, <2>1, <2>2, CommandOf
<1>3. CASE Filter(a)
  <2>. DEFINE y == [o EXCEPT !.current = 0]
  <2>1. \/ ao' = [ao EXCEPT ![a] = PlayOrLeave(o)]
        \/ \E t : ao' = [ao EXCEPT ![a] = CloseError(y, t)]
    BY <1>3 DEF Filter
  <2>2. y \in Records /\ y.command = o.command
    BY <1>1 DEF Records
  <2>. HIDE DEF y
  <2>. QED
    BY <1>1, <2>1, <2>2, CommandOf
<1>4. CASE DevicePlays(a)
  <2>. DEFINE p == Consume(o)
              y == [o EXCEPT !.caught = TRUE, !.at = "notify"]
              r == [p EXCEPT !.at = "notify"]
  <2>1. \/ ao' = [ao EXCEPT ![a] = Filling(p)]
        \/ ao' = [ao EXCEPT ![a] = r]
        \/ ao' = [ao EXCEPT ![a] = y]
        \/ ao' = [ao EXCEPT ![a] = CloseError(o, "notify")]
    BY <1>4 DEF DevicePlays
  <2>2. y.command = o.command
    BY <1>1 DEF Records
  <2>3. p \in Records
    BY <1>1 DEF Records, Consume
  <2>4. p.command = o.command
    BY <1>1, CommandOf
  <2>. HIDE DEF p
  <2>5. r.command = p.command
    BY <2>3 DEF Records
  <2>. HIDE DEF y, r
  <2>. QED
    BY <1>1, <2>1, <2>2, <2>3, <2>4, <2>5, CommandOf
<1>5. CASE ChunksConsumed(a)
  <2>. DEFINE y == [o EXCEPT !.inloop = FALSE, !.at = "loop"]
  <2>1. ao' = [ao EXCEPT ![a] = y]
    BY <1>5 DEF ChunksConsumed
  <2>2. y.command = o.command
    BY <1>1 DEF Records
  <2>. HIDE DEF y
  <2>. QED
    BY <2>1, <2>2
<1>6. CASE Closed(a)
  <2>. DEFINE p == SourceCancel([o EXCEPT !.source = "CLOSED", !.filter = "null"])
  <2>1. PICK x \in {[p EXCEPT !.really = FALSE, !.at = "disabling"], Finished(p),
                    [p EXCEPT !.pause = FALSE, !.at = "loop", !.then = ""],
                    [p EXCEPT !.at = "notify", !.then = ""],
                    [p EXCEPT !.at = "failed", !.then = "", !.woken = FALSE]} : ao' = [ao EXCEPT ![a] = x]
    <3>. HIDE DEF p
    <3>1. p = SourceCancel([o EXCEPT !.source = "CLOSED", !.filter = "null"])
      BY DEF p
    <3>. QED
      BY <1>6, <3>1 DEF Closed
  <2>2. p \in Records /\ p.command = o.command
    <3>. DEFINE q == [o EXCEPT !.source = "CLOSED", !.filter = "null"]
    <3>1. q \in Records /\ q.command = o.command
      BY <1>1, Values, Zenon DEF Records
    <3>. HIDE DEF q
    <3>2. SourceCancel(q) \in Records /\ SourceCancel(q).command = q.command
      BY <3>1 DEF Records, SourceCancel
    <3>. QED
      BY <3>1, <3>2 DEF q
  <2>. HIDE DEF p
  <2>3. x.command = p.command \/ x.command = "NONE"
    BY <2>1, <2>2, CommandOf, ZenonT(60) DEF Records
  <2>. QED
    BY <2>1, <2>2, <2>3
<1>7. CASE FailedWakes(a)
  <2>. DEFINE y == [o EXCEPT !.at = "loop"]
  <2>1. ao' = [ao EXCEPT ![a] = y]
    BY <1>7 DEF FailedWakes
  <2>2. y.command = o.command
    BY <1>1 DEF Records
  <2>. HIDE DEF y
  <2>. QED
    BY <2>1, <2>2
<1>9. CASE Enabled(a)
  <2>. DEFINE y == [o EXCEPT !.really = TRUE]
              z == [o EXCEPT !.failed = TRUE]
  <2>1. ao' = [ao EXCEPT ![a] = Finished(y)] \/ ao' = [ao EXCEPT ![a] = Finished(z)]
    BY <1>9 DEF Enabled
  <2>2. y \in Records /\ z \in Records
    BY <1>1 DEF Records
  <2>. HIDE DEF y, z
  <2>. QED
    BY <2>1, <2>2, CommandOf
<1>10. CASE Disabled(a)
  <2>. DEFINE p == IF o.source = "OPEN" THEN SourceCancel(o) ELSE o
              y == [Finished(p) EXCEPT !.at = "done"]
  <2>1. ao' = [ao EXCEPT ![a] = Finished(o)] \/ ao' = [ao EXCEPT ![a] = y]
    BY <1>10 DEF Disabled
  <2>2. p \in Records
    <3>1. SourceCancel(o) \in Records
      BY <1>1 DEF Records, SourceCancel
    <3>. QED
      BY <1>1, <3>1
  <2>. HIDE DEF p
  <2>3. y.command = "NONE"
    BY <2>2 DEF Records, Finished
  <2>. HIDE DEF y
  <2>. QED
    BY <1>1, <2>1, <2>3, CommandOf
<1>11. CASE InternalOpen(a)
  <2>. DEFINE w == [o EXCEPT !.open = FALSE, !.source = "CLOSED", !.filter = "null",
                             !.pipe = "live", !.failed = TRUE]
              v == SourceCancel(Finished(w))
  <2>1. \/ \E same \in BOOLEAN : ao' = [ao EXCEPT ![a] = Finished([SourceOpen(o, same) EXCEPT !.open = TRUE])]
        \/ \E same \in BOOLEAN : ao' = [ao EXCEPT ![a] = Finished([SourceFails(o, same) EXCEPT !.failed = TRUE])]
        \/ ao' = [ao EXCEPT ![a] = v]
    BY <1>11, Zenon DEF InternalOpen
  <2>2. ASSUME NEW same \in BOOLEAN
        PROVE  Finished([SourceOpen(o, same) EXCEPT !.open = TRUE]).command = "NONE"
    <3>. DEFINE q == SourceOpen(o, same)
                y == [q EXCEPT !.open = TRUE]
    <3>1. q \in Records
      BY <1>1, Values, ZenonT(30) DEF Records, SourceOpen, SourceCancel
    <3>. HIDE DEF q
    <3>2. y \in Records
      BY <3>1 DEF Records
    <3>. HIDE DEF y
    <3>3. Finished(y).command = "NONE"
      BY <3>2, CommandOf
    <3>. QED
      BY <3>3 DEF y, q
  <2>6. ASSUME NEW same \in BOOLEAN
        PROVE  Finished([SourceFails(o, same) EXCEPT !.failed = TRUE]).command = "NONE"
    <3>. DEFINE q == SourceFails(o, same)
                y == [q EXCEPT !.failed = TRUE]
    <3>1. q \in Records
      BY <1>1, Values, ZenonT(30) DEF Records, SourceFails, SourceCancel
    <3>. HIDE DEF q
    <3>2. y \in Records
      BY <3>1 DEF Records
    <3>. HIDE DEF y
    <3>3. Finished(y).command = "NONE"
      BY <3>2, CommandOf
    <3>. QED
      BY <3>3 DEF y, q
  <2>3. w \in Records
    BY <1>1, Values, Zenon DEF Records
  <2>. HIDE DEF w
  <2>4. Finished(w) \in Records /\ Finished(w).command = "NONE"
    BY <2>3, FinishedFacts
  <2>5. v.command = "NONE"
    BY <2>4, CommandOf
  <2>. HIDE DEF v
  <2>. QED
    BY <2>1, <2>2, <2>5, <2>6
<1>12. CASE BeginPause(a)
  <2>. DEFINE y == [o EXCEPT !.pause = TRUE, !.command = "NONE", !.at = "paused"]
  <2>1. ao' = [ao EXCEPT ![a] = y]
    BY <1>12 DEF BeginPause
  <2>2. y.command = "NONE"
    BY <1>1 DEF Records
  <2>. HIDE DEF y
  <2>. QED
    BY <2>1, <2>2
<1>13. CASE IteratePause(a)
  <2>. DEFINE y == [o EXCEPT !.pause = FALSE, !.at = "loop"]
  <2>1. ao' = [ao EXCEPT ![a] = y] \/ ao' = [ao EXCEPT ![a] = Close(o, "endPause")]
    BY <1>13 DEF IteratePause
  <2>2. y.command = o.command
    BY <1>1 DEF Records
  <2>. HIDE DEF y
  <2>. QED
    BY <1>1, <2>1, <2>2, CommandOf
<1>14. CASE Drained(a)
  BY <1>1, <1>14, CommandOf DEF Drained
<1>15. CASE Cancelled(a)
  BY <1>1, <1>15, CommandOf DEF Cancelled
<1>8. CASE TaskCommand(a)
  <2>. DEFINE en == [o EXCEPT !.at = "enabling"]
              ds == [o EXCEPT !.at = "disabled"]
              dg == [o EXCEPT !.really = FALSE, !.at = "disabling"]
              op == [o EXCEPT !.reopen = FALSE, !.failed = FALSE, !.caught = FALSE,
                              !.interrupt = FALSE, !.at = "opening"]
              ct == [o EXCEPT !.caught = FALSE]
              pa == [o EXCEPT !.caught = FALSE, !.interrupt = FALSE, !.at = "pausing"]
              pl == [pa EXCEPT !.last = 0]
              dr == [o EXCEPT !.source = "FLUSHED", !.reopen = TRUE, !.at = "draining",
                              !.filter = IF @ = "open" THEN "stale" ELSE @]
              ca == [o EXCEPT !.caught = FALSE, !.interrupt = FALSE,
                              !.at = IF o.open THEN "cancelling" ELSE "loop",
                              !.command = IF o.open THEN @ ELSE "NONE"]
              cl == [ca EXCEPT !.last = 0]
  <2>1. \E x \in {Finished(o), en, ds, Close(o, "disable"), dg, op, Close(o, "finish"),
                  Close(ct, "finish"), SourceCancel(pa), pl, pa, dr, SourceCancel(ca), cl} :
          ao' = [ao EXCEPT ![a] = x]
    BY <1>8, Zenon DEF TaskCommand
  <2>2. /\ en.command = o.command /\ ds.command = o.command /\ dg.command = o.command
        /\ op.command = o.command /\ dr.command = o.command
    BY <1>1 DEF Records
  <2>3. ct \in Records /\ ct.command = o.command
    BY <1>1 DEF Records
  <2>4. pa \in Records /\ pa.command = o.command
    BY <1>1 DEF Records, Places
  <2>5. ca \in Records /\ (ca.command = o.command \/ ca.command = "NONE")
    <3>. DEFINE u == [o EXCEPT !.caught = FALSE, !.interrupt = FALSE, !.at = "cancelling",
                               !.command = o.command]
                v == [o EXCEPT !.caught = FALSE, !.interrupt = FALSE, !.at = "loop",
                               !.command = "NONE"]
    <3>1. u \in Records /\ u.command = o.command
      BY <1>1 DEF Records, Places
    <3>2. v \in Records /\ v.command = "NONE"
      BY <1>1, Values, Zenon DEF Records
    <3>3. (o.open => ca = u) /\ (~o.open => ca = v)
      OBVIOUS
    <3>. HIDE DEF u, v, ca
    <3>. QED
      BY <3>1, <3>2, <3>3
  <2>. HIDE DEF pa, ca
  <2>9. pl.command = pa.command /\ cl.command = ca.command
    BY <2>4, <2>5 DEF Records
  <2>. HIDE DEF en, ds, dg, op, ct, dr, pl, cl
  <2>6. /\ Finished(o).command = "NONE" /\ Close(o, "disable").command = o.command
        /\ Close(o, "finish").command = o.command /\ Close(ct, "finish").command = o.command
        /\ SourceCancel(pa).command = o.command
        /\ SourceCancel(ca).command = ca.command
    BY <1>1, <2>3, <2>4, <2>5, CommandOf
  <2>7. PICK x \in {Finished(o), en, ds, Close(o, "disable"), dg, op, Close(o, "finish"),
                    Close(ct, "finish"), SourceCancel(pa), pl, pa, dr, SourceCancel(ca), cl} :
          ao' = [ao EXCEPT ![a] = x]
    BY <2>1
  <2>8. Good(x)
    BY <2>2, <2>3, <2>4, <2>5, <2>6, <2>7, <2>9
  <2>. QED
    BY <2>7, <2>8
<1>. QED
  BY <1>2, <1>3, <1>4, <1>5, <1>6, <1>7, <1>8, <1>9, <1>10, <1>11, <1>12, <1>13, <1>14, <1>15 DEF Task

\* One output changes, and gets no KILL before the end.
LEMMA NoEarlyKill ==
  ASSUME Inv, Killed, client.done => client'.done, NEW a \in Outputs, NEW x,
         ao' = [ao EXCEPT ![a] = x],
         x.command = ao[a].command \/ x.command # "KILL" \/ client.done
  PROVE  Killed'
<1>1. ao \in [Outputs -> Records]
  BY DEF Inv
<1>2. ASSUME NEW b \in Outputs, ao'[b].command = "KILL" PROVE client'.done
  <2>1. CASE b = a
    BY <1>1, <1>2, <2>1 DEF Killed
  <2>2. CASE b # a
    BY <1>1, <1>2, <2>2 DEF Killed
  <2>. QED
    BY <2>1, <2>2
<1>. QED
  BY <1>2 DEF Killed

\* CommandAsync() sends the command it is given.
LEMMA CommandAsyncSends ==
  ASSUME NEW a, NEW o \in Records, NEW cmd, CommandAsync(a, o, cmd)
  PROVE  \E x : ao' = [ao EXCEPT ![a] = x] /\ x.command = cmd
<1>. DEFINE x == [o EXCEPT !.command = cmd, !.at = IF @ = "none" THEN "loop" ELSE @]
<1>1. ao' = [ao EXCEPT ![a] = x]
  BY DEF CommandAsync
<1>2. x.command = cmd
  BY DEF Records
<1>. HIDE DEF x
<1>. QED
  BY <1>1, <1>2

\* The steps of an operation: only BeginDestroy() sends KILL.
LEMMA PlayerStepKilled ==
  ASSUME Inv, Killed, PlayerStep
  PROVE  Killed'
<1>1. ao \in [Outputs -> Records] /\ client \in [open : BOOLEAN, paused : BOOLEAN, done : BOOLEAN]
  BY DEF Inv, PipeInv
<1>2. ASSUME ao' = ao, client.done => client'.done PROVE Killed'
  BY <1>2 DEF Killed
<1>3. ASSUME PlayerUnchanged PROVE client' = client
  BY <1>3 DEF PlayerUnchanged
<1>4. CASE WaitAll \/ Peek
  BY <1>2, <1>3, <1>4 DEF WaitAll, Peek
<1>5. CASE Opened
  <2>1. ao' = ao /\ \E u, v : client' = [client EXCEPT !.open = u, !.paused = v]
    BY <1>5 DEF Opened
  <2>2. client'.done = client.done
    BY <1>1, <2>1
  <2>. QED
    BY <1>2, <2>1, <2>2
<1>6. CASE Push
  <2>1. ao' = ao /\ (client' = client \/ client' = [client EXCEPT !.paused = TRUE])
    BY <1>6 DEF Push
  <2>2. client'.done = client.done
    BY <1>1, <2>1
  <2>. QED
    BY <1>2, <2>1, <2>2
<1>7. CASE Shift
  BY <1>2, <1>7 DEF Shift
<1>8. CASE ClearOrReset
  <2>1. client' = client /\ (ao' = ao \/ ao' = [a \in Outputs |-> Stale(ao[a])])
    BY <1>8 DEF ClearOrReset
  <2>2. ASSUME NEW b \in Outputs PROVE Stale(ao[b]).command = ao[b].command
    <3>1. ao[b] \in Records
      BY <1>1
    <3>. QED
      BY <3>1 DEF Stale, Records
  <2>3. \A b \in Outputs : ao'[b].command = ao[b].command
    BY <2>1, <2>2
  <2>. QED
    BY <2>1, <2>3 DEF Killed
<1>9. ASSUME NEW a \in Outputs,
             \/ LockEnableDisableAsync(a) \/ WaitForCommand(a) \/ LockUpdate(a) \/ LockPlay(a)
             \/ Interrupt(a) \/ LockAsync(a) \/ LockCloseWait(a) \/ LockAllowPlay(a)
             \/ LockIsChunkConsumed(a) \/ LockClearTailChunk(a) \/ BeginDestroy(a) \/ Join(a)
      PROVE  Killed'
  <2>. DEFINE o == ao[a]
  <2>1. o \in Records
    BY <1>1
  <2>2. PlayerUnchanged
    BY <1>9 DEF LockEnableDisableAsync, WaitForCommand, LockUpdate, LockPlay, Interrupt, LockAsync,
                LockCloseWait, LockAllowPlay, LockIsChunkConsumed, LockClearTailChunk, BeginDestroy, Join
  <2>3. client' = client
    BY <1>3, <2>2
  <2>4. ASSUME NEW x, ao' = [ao EXCEPT ![a] = x],
               x.command = o.command \/ x.command # "KILL" \/ client.done
        PROVE  Killed'
    BY <2>3, <2>4, NoEarlyKill
  <2>5. ASSUME NEW y \in Records, NEW cmd, CommandAsync(a, y, cmd), cmd # "KILL" \/ client.done
        PROVE  Killed'
    <3>1. PICK x : ao' = [ao EXCEPT ![a] = x] /\ x.command = cmd
      BY <2>5, CommandAsyncSends
    <3>. QED
      BY <2>4, <2>5, <3>1
  <2>6. ASSUME ao' = ao PROVE Killed'
    BY <1>2, <2>3, <2>6
  <2>7. CASE LockEnableDisableAsync(a)
    <3>. DEFINE y == [o EXCEPT !.really = o.enabled]
    <3>1. \/ ao' = ao \/ Set(a, y) \/ CommandAsync(a, o, "ENABLE") \/ CommandAsync(a, o, "DISABLE")
      BY <2>7 DEF LockEnableDisableAsync
    <3>2. y.command = o.command
      BY <2>1 DEF Records
    <3>. HIDE DEF y
    <3>. QED
      BY <2>1, <2>4, <2>5, <2>6, <3>1, <3>2 DEF Set
  <2>8. CASE WaitForCommand(a) \/ LockIsChunkConsumed(a) \/ Join(a)
    BY <2>6, <2>8 DEF WaitForCommand, LockIsChunkConsumed, Join
  <2>9. CASE LockUpdate(a)
    <3>. DEFINE y == [o EXCEPT !.failed = FALSE]
                w == [o EXCEPT !.failed = FALSE, !.request = "live"]
                v == [o EXCEPT !.failed = FALSE, !.request = "live",
                               !.filter = IF @ = "open" THEN "stale" ELSE @]
    <3>1. \/ ao' = ao \/ Set(a, y) \/ CommandAsync(a, o, "CLOSE")
          \/ CommandAsync(a, w, "OPEN") \/ CommandAsync(a, v, "OPEN")
      BY <2>9, Zenon DEF LockUpdate
    <3>2. y.command = o.command
      BY <2>1 DEF Records
    <3>3. w \in Records /\ v \in Records
      <4>. DEFINE g == IF o.filter = "open" THEN "stale" ELSE o.filter
                  u == [o EXCEPT !.failed = FALSE, !.request = "live", !.filter = g]
      <4>1. g \in Filters
        BY <2>1 DEF Records, Filters
      <4>4. v = u
        OBVIOUS
      <4>. HIDE DEF g, v
      <4>5. u \in Records
        BY <2>1, <4>1, Values, Zenon DEF Records
      <4>2. v \in Records
        BY <4>4, <4>5
      <4>3. w \in Records
        BY <2>1, Values, Zenon DEF Records
      <4>. QED
        BY <4>2, <4>3
    <3>. HIDE DEF y, w, v
    <3>. QED
      BY <2>1, <2>4, <2>5, <2>6, <3>1, <3>2, <3>3 DEF Set
  <2>10. CASE LockPlay(a)
    <3>. DEFINE y == [o EXCEPT !.woken = TRUE]
    <3>1. ao' = ao \/ ao' = [ao EXCEPT ![a] = y]
      BY <2>10 DEF LockPlay
    <3>2. y.command = o.command
      BY <2>1 DEF Records
    <3>. HIDE DEF y
    <3>. QED
      BY <2>4, <2>6, <3>1, <3>2
  <2>11. CASE Interrupt(a)
    <3>. DEFINE y == [o EXCEPT !.interrupt = TRUE]
    <3>1. ao' = [ao EXCEPT ![a] = y]
      BY <2>11 DEF Interrupt, Set
    <3>2. y.command = o.command
      BY <2>1 DEF Records
    <3>. HIDE DEF y
    <3>. QED
      BY <2>4, <3>1, <3>2
  <2>12. CASE LockAsync(a)
    <3>. DEFINE y == [o EXCEPT !.allow = FALSE]
    <3>1. \/ ao' = ao \/ CommandAsync(a, o, "PAUSE") \/ CommandAsync(a, o, "DRAIN")
          \/ CommandAsync(a, y, "CANCEL")
      BY <2>12, Zenon DEF LockAsync
    <3>2. y \in Records
      BY <2>1 DEF Records
    <3>. HIDE DEF y
    <3>. QED
      BY <2>1, <2>5, <2>6, <3>1, <3>2
  <2>13. CASE LockCloseWait(a)
    <3>. DEFINE y == [o EXCEPT !.interrupt = TRUE]
                w == [o EXCEPT !.failed = FALSE]
    <3>1. CommandAsync(a, y, "CLOSE") \/ CommandAsync(a, y, "RELEASE") \/ Set(a, w)
      BY <2>13, Zenon DEF LockCloseWait
    <3>2. y \in Records
      BY <2>1 DEF Records
    <3>3. w.command = o.command
      BY <2>1 DEF Records
    <3>. HIDE DEF y, w
    <3>. QED
      BY <2>4, <2>5, <3>1, <3>2, <3>3 DEF Set
  <2>14. CASE LockAllowPlay(a)
    <3>. DEFINE y == [o EXCEPT !.allow = TRUE]
    <3>1. ao' = [ao EXCEPT ![a] = y]
      BY <2>14 DEF LockAllowPlay
    <3>2. y.command = o.command
      BY <2>1 DEF Records
    <3>. HIDE DEF y
    <3>. QED
      BY <2>4, <3>1, <3>2
  <2>15. CASE LockClearTailChunk(a)
    <3>. DEFINE y == [o EXCEPT !.chunk = 0, !.allow = FALSE]
    <3>1. ao' = [ao EXCEPT ![a] = y] \/ ao' = [ao EXCEPT ![a] = o]
      BY <2>15 DEF LockClearTailChunk, Set
    <3>2. y.command = o.command
      BY <2>1 DEF Records
    <3>. HIDE DEF y
    <3>. QED
      BY <2>4, <3>1, <3>2
  <2>16. CASE BeginDestroy(a)
    <3>. DEFINE y == [o EXCEPT !.killed = TRUE, !.interrupt = TRUE]
    <3>1. ao' = ao \/ CommandAsync(a, y, "KILL")
      BY <2>16 DEF BeginDestroy
    <3>2. y \in Records
      BY <2>1 DEF Records
    <3>3. client.done
      <4>1. Doing("kill") /\ Head(todo).ao = a
        BY <2>16 DEF BeginDestroy
      <4>2. Step("kill", a) \in Left /\ PlayerInv(Left)
        BY <4>1, KindFacts, OutputStep
      <4>. QED
        BY <4>2, StepFacts DEF PlayerInv
    <3>. HIDE DEF y
    <3>. QED
      BY <2>5, <2>6, <3>1, <3>2, <3>3
  <2>. QED
    BY <1>9, <2>7, <2>8, <2>9, <2>10, <2>11, <2>12, <2>13, <2>14, <2>15, <2>16
<1>. QED
  BY <1>4, <1>5, <1>6, <1>7, <1>8, <1>9 DEF PlayerStep

\* An operation that begins sends nothing yet.
LEMMA OperationKilled ==
  ASSUME Inv, Killed, Operation
  PROVE  Killed'
<1>1. ao \in [Outputs -> Records] /\ client \in [open : BOOLEAN, paused : BOOLEAN, done : BOOLEAN]
  BY DEF Inv, PipeInv
<1>2. ASSUME NEW a \in Outputs, LockToggleEnabled(a) PROVE Killed'
  <2>. DEFINE o == ao[a]
              y == [o EXCEPT !.enabled = ~o.enabled]
  <2>1. ao' = [ao EXCEPT ![a] = y] /\ client' = client
    BY <1>2 DEF LockToggleEnabled
  <2>2. o \in Records
    BY <1>1
  <2>3. y.command = o.command
    BY <2>2 DEF Records
  <2>. HIDE DEF y
  <2>. QED
    BY <2>1, <2>3, NoEarlyKill
<1>3. CASE \/ EnableDisable \/ Open \/ Play \/ CheckPipe \/ Pause \/ Drain \/ Cancel \/ Release \/ Exit
  <2>1. ao' = ao
    BY <1>3 DEF EnableDisable, Open, Play, CheckPipe, Pause, Drain, Cancel, Release, Exit, Begin, Run
  <2>2. \/ client' = client \/ client' = [client EXCEPT !.paused = TRUE]
        \/ client' = [client EXCEPT !.open = FALSE, !.paused = FALSE]
        \/ client' = [open |-> FALSE, paused |-> FALSE, done |-> TRUE]
    BY <1>3 DEF EnableDisable, Open, Play, CheckPipe, Pause, Drain, Cancel, Release, Exit
  <2>3. /\ [client EXCEPT !.paused = TRUE].done = client.done
        /\ [client EXCEPT !.open = FALSE, !.paused = FALSE].done = client.done
        /\ [open |-> FALSE, paused |-> FALSE, done |-> TRUE].done
    BY <1>1
  <2>4. client.done => client'.done
    BY <2>2, <2>3
  <2>. QED
    BY <2>1, <2>4 DEF Killed
<1>. QED
  BY <1>2, <1>3 DEF Operation

\* A thread does not send commands.
LEMMA TaskKilled ==
  ASSUME Inv, Killed, NEW a \in Outputs, Task(a)
  PROVE  Killed'
<1>1. client' = client
  BY DEF Task, TaskPlays, Filter, DevicePlays, ChunksConsumed, Closed, FailedWakes, TaskCommand, Enabled,
         Disabled, InternalOpen, BeginPause, IteratePause, Drained, Cancelled, ThreadUnchanged
<1>2. PICK x : ao' = [ao EXCEPT ![a] = x] /\ (x.command = ao[a].command \/ x.command = "NONE")
  BY TaskFinishes
<1>. QED
  BY <1>1, <1>2, NoEarlyKill

----------------------------------------------------------------------------
(***************************************************************************)
(* The theorems.                                                           *)
(***************************************************************************)

IInv == Inv /\ Killed

\* A new output is fine as long as there is neither a pipe nor an operation.
LEMMA NewOutputFine ==
  ASSUME NEW a
  PROVE  NewOutput \in Records /\ Fine(a, NewOutput, {}, {}, 0, 0, FALSE, FALSE)
<1>. DEFINE o == NewOutput
<1>1. o \in Records
  BY DEF NewOutput, Records, Places, Pointers, Commands, Filters
<1>2. /\ o.at = "none" /\ o.command = "NONE" /\ ~o.open /\ o.source = "CLOSED" /\ o.allow
      /\ ~o.inloop /\ o.chunk = 0 /\ o.current = 0 /\ o.last = 0 /\ o.pipe = "null"
  BY DEF NewOutput
<1>. HIDE DEF o
<1>3. Local(a, o)
  BY <1>2 DEF Local
<1>4. Expected(a, o, {}, {}) /\ Link(a, o, {}, 0)
  BY <1>2 DEF Expected, Link
<1>5. Data(a, o, {}, 0, 0, FALSE)
  BY <1>2 DEF Data
<1>6. Phase(a, o, {}, 0, 0) /\ Sleeper(a, o, {}, 0, 0, FALSE)
  BY DEF Phase, Closing, Clearing, Shifting, Sleeper
<1>. QED
  BY <1>1, <1>3, <1>4, <1>5, <1>6 DEF Fine, o

\* The initial states
LEMMA InitFine ==
  ASSUME Init
  PROVE  IInv
<1>1. /\ ao = [a \in Outputs |-> NewOutput] /\ asleep = {} /\ exists = FALSE /\ pipe = << >>
      /\ todo = << >> /\ client = [open |-> FALSE, paused |-> FALSE, done |-> FALSE] /\ pushed = 0
  BY DEF Init
<1>2. Sorted(todo) /\ Left = {} /\ Now = {} /\ Program(Left, Now)
  BY <1>1, NoSteps DEF Left, Now
<1>3. pipe \in Seq(Nat) /\ Len(pipe) = 0 /\ DOMAIN pipe = {}
  BY <1>1
<1>4. PipeInv
  <2>1. pushed \in 0..MaxChunks
    BY <1>1, OutputsAssumption
  <2>2. Len(pipe) <= pushed /\ \A i \in DOMAIN pipe : pipe[i] = pushed - Len(pipe) + i
    BY <1>1, <1>3
  <2>3. exists \in BOOLEAN /\ client \in [open : BOOLEAN, paused : BOOLEAN, done : BOOLEAN]
    BY <1>1
  <2>4. (~exists => Len(pipe) = 0) /\ (client.open => exists)
    BY <1>1, <1>3
  <2>. QED
    BY <1>3, <2>1, <2>2, <2>3, <2>4 DEF PipeInv
<1>5. PlayerInv(Left)
  BY <1>2 DEF PlayerInv
<1>6. ASSUME NEW a \in Outputs PROVE FineNow(a)
  <2>1. ao[a] = NewOutput /\ (a \in asleep) = FALSE
    BY <1>1
  <2>. QED
    BY <1>1, <1>2, <1>3, <2>1, NewOutputFine DEF FineNow
<1>7. ao \in [Outputs -> Records]
  BY <1>1, NewOutputFine
<1>8. Killed
  BY <1>1 DEF Killed, NewOutput
<1>. QED
  BY <1>1, <1>2, <1>4, <1>5, <1>6, <1>7, <1>8 DEF IInv, Inv

\* A step that changes nothing
LEMMA StutterKeeps ==
  ASSUME IInv, UNCHANGED vars
  PROVE  IInv'
<1>1. /\ ao' = ao /\ asleep' = asleep /\ exists' = exists /\ pipe' = pipe /\ todo' = todo
      /\ client' = client /\ pushed' = pushed
  BY DEF vars
<1>2. Left' = Left /\ Now' = Now
  BY <1>1 DEF Left, Now
<1>3. ASSUME NEW a \in Outputs PROVE FineNow(a)'
  <2>1. FineNow(a)
    BY DEF IInv, Inv
  <2>. QED
    BY <1>1, <1>2, <2>1 DEF FineNow
<1>4. Sorted(todo)' /\ Program(Left, Now)' /\ PipeInv' /\ PlayerInv(Left)'
  BY <1>1, <1>2 DEF IInv, Inv, PipeInv, PlayerInv
<1>5. ao' \in [Outputs -> Records] /\ asleep' \subseteq Outputs
  BY <1>1 DEF IInv, Inv
<1>6. Killed'
  BY <1>1 DEF IInv, Killed
<1>. QED
  BY <1>3, <1>4, <1>5, <1>6 DEF IInv, Inv

\* Whatever the outputs, the player and the user do, in any order: the steps left
\* of the player's operation, the commands that are pending, the places of the
\* threads and the chunks they refer to fit together.
THEOREM Invariance == Spec => []IInv
<1>1. Init => IInv
  BY InitFine
<1>2. IInv /\ [Next]_vars => IInv'
  <2>. SUFFICES ASSUME IInv, [Next]_vars PROVE IInv'
    OBVIOUS
  <2>1. Inv /\ Killed
    BY DEF IInv
  <2>2. CASE PlayerStep
    BY <2>1, <2>2, PlayerStepKeeps, PlayerStepKilled DEF IInv
  <2>3. CASE Operation
    BY <2>1, <2>3, OperationKeeps, OperationKilled DEF IInv
  <2>4. ASSUME NEW a \in Outputs, Task(a) PROVE IInv'
    BY <2>1, <2>4, TaskKeeps, TaskKilled DEF IInv
  <2>5. CASE UNCHANGED vars
    BY <2>5, StutterKeeps
  <2>. QED
    BY <2>2, <2>3, <2>4, <2>5 DEF Next
<1>. QED
  BY <1>1, <1>2, PTL DEF Spec

\* What the invariant says of one output
LEMMA OutputFacts ==
  ASSUME Inv, NEW a \in Outputs
  PROVE  /\ ao[a] \in Records /\ Local(a, ao[a]) /\ Expected(a, ao[a], Left, Now)
         /\ Link(a, ao[a], Left, Len(pipe)) /\ Data(a, ao[a], Left, Len(pipe), pushed, exists)
         /\ Phase(a, ao[a], Left, Len(pipe), pushed)
         /\ Sleeper(a, ao[a], Left, Len(pipe), pushed, a \in asleep)
  BY DEF Inv, FineNow, Fine

\* The types
LEMMA TypesOK ==
  ASSUME Inv
  PROVE  TypeOK
<1>1. PipeInv /\ asleep \subseteq Outputs
  BY DEF Inv
<1>2. MaxChunks \in Nat /\ pushed \in 0..MaxChunks
  BY <1>1, OutputsAssumption DEF PipeInv
<1>3. ASSUME NEW a \in Outputs
      PROVE  /\ ao[a].command \in Commands /\ ao[a].source \in {"CLOSED", "OPEN", "FLUSHED"}
             /\ ao[a].pipe \in {"null", "live", "freed"}
             /\ ao[a].chunk \in 0 .. MaxChunks /\ ao[a].current \in 0 .. MaxChunks
  <2>1. ao[a] \in Records /\ ao[a].chunk <= pushed /\ ao[a].current <= pushed
    BY OutputFacts DEF Data
  <2>2. /\ ao[a].command \in Commands /\ ao[a].source \in {"CLOSED", "OPEN", "FLUSHED"}
        /\ ao[a].pipe \in {"null", "live", "freed"} /\ ao[a].chunk \in Nat /\ ao[a].current \in Nat
    BY <2>1 DEF Records, Pointers
  <2>. QED
    BY <1>2, <2>1, <2>2
<1>4. ~exists => pipe = << >>
  BY <1>1, PipeFacts DEF PipeInv
<1>. QED
  BY <1>1, <1>2, <1>3, <1>4 DEF TypeOK

\* The assertions hold for the step that is next.
LEMMA AssertionsHold ==
  ASSUME Inv
  PROVE  ControlAssertions
<1>. SUFFICES ASSUME todo # << >>
              PROVE  LET d == Head(todo).do  o == ao[Head(todo).ao] IN
                     /\ d \in {"enable", "update", "force", "pause", "drain", "cancel", "close", "release", "kill"} =>
                           o.command = "NONE"
                     /\ d \in {"update", "force", "play", "pause", "drain", "close", "release"} => o.allow
                     /\ \/ d \in {"close", "release"}
                        \/ d \in {"update", "force"} /\ ~(o.enabled /\ o.really)
                        => (o.open /\ o.failed => o.filter = "null")
                     /\ d = "consumed" /\ o.open =>
                           o.source # "CLOSED" /\ (o.chunk # 0 => Contains(pipe, o.chunk))
                     /\ d = "tail" /\ o.open => o.chunk = Head(pipe) /\ o.consumed
  BY DEF ControlAssertions
<1>. DEFINE d == Head(todo).do
            a == Head(todo).ao
            o == ao[a]
            n == Len(pipe)
<1>1. a \in Outputs /\ d \in Kinds /\ Doing(d)
  BY HeadFacts DEF AllSteps, Doing
<1>2. /\ \A s \in Left : s.do \in Behind(d)
      /\ Program(Left, Now) /\ PlayerInv(Left) /\ Step(d, a) \in Left
      /\ d \notin {"wait", "updated", "waitAll", "join"} => o.command = "NONE"
  BY <1>1, OutputStep
<1>3. /\ o \in Records /\ Local(a, o) /\ Link(a, o, Left, n)
      /\ Data(a, o, Left, n, pushed, exists) /\ Phase(a, o, Left, n, pushed)
  BY <1>1, OutputFacts
<1>4. PipeInv
  BY DEF Inv
<1>5. /\ n \in Nat /\ pushed \in Nat /\ pushed - n \in Nat
      /\ \A m : Contains(pipe, m) <=> m \in (pushed - n + 1) .. pushed
      /\ pipe # << >> => Head(pipe) = pushed - n + 1
      /\ (pipe = << >> <=> n = 0)
  BY <1>4, PipeFacts
<1>. HIDE DEF a, o, d, n
<1>6. d \in {"enable", "update", "force", "pause", "drain", "cancel", "close", "release", "kill"} =>
        o.command = "NONE"
  BY <1>2
<1>7. d \in {"update", "force", "play", "pause", "drain", "close", "release"} => o.allow
  <2>. SUFFICES ASSUME d \in {"update", "force", "play", "pause", "drain", "close", "release"}
                PROVE  o.allow
    OBVIOUS
  <2>1. PICK K \in Programs : \A s \in Left : s.do \in K
    BY <1>2 DEF Program
  <2>2. d \in K
    BY <1>2, <2>1, StepFacts
  <2>3. "allow" \notin K /\ "shift" \notin K
    BY <2>2 DEF Programs
  <2>4. Step("allow", a) \notin Left /\ One("shift") \notin Left
    BY <2>1, <2>3, StepFacts
  <2>. QED
    BY <1>3, <2>4 DEF Link
<1>8. o.open /\ o.failed => o.filter = "null"
  BY <1>3 DEF Local
<1>9. d = "consumed" /\ o.open => o.source # "CLOSED" /\ (o.chunk # 0 => Contains(pipe, o.chunk))
  <2>1. o.open => o.source # "CLOSED"
    BY <1>3 DEF Local
  <2>2. o.chunk \in Nat
    BY <1>3 DEF Records
  <2>3. o.open /\ o.chunk # 0 => o.chunk > pushed - n /\ o.chunk <= pushed
    BY <1>3 DEF Data
  <2>. QED
    BY <1>5, <2>1, <2>2, <2>3
<1>10. ASSUME d = "tail", o.open PROVE o.chunk = Head(pipe) /\ o.consumed
  <2>1. Step("tail", a) \in Left /\ \A s \in Left : s.do \in Behind("tail")
    BY <1>2, <1>10
  <2>2. Step("consumed", a) \notin Left
    BY <2>1, StepFacts DEF Behind
  <2>3. One("shift") \in Left /\ n = 1
    BY <1>2, <2>1, StepFacts DEF Program, PlayerInv, n
  <2>4. o.chunk = pushed /\ o.consumed
    BY <1>3, <1>10, <2>1, <2>2, <2>3 DEF Phase, Shifting
  <2>5. Head(pipe) = pushed - n + 1
    BY <1>5, <2>3
  <2>. QED
    BY <1>5, <2>3, <2>4, <2>5
<1>. QED
  BY <1>6, <1>7, <1>8, <1>9, <1>10 DEF a, o, d

\* No assertion of AudioOutputControl and SharedPipeConsumer fails: there is one
\* command at a time, no operation meets an output that is still stalled by an
\* earlier one, and ClearTailChunk() finds the chunk it expects.  The assertion that
\* a device that is open has not failed holds as long as the output has its filter:
\* InternalOpen() may lose it when it opens the source of an open device again.
THEOREM SoundAlways == Spec => []Sound
<1>1. IInv => Sound
  BY TypesOK, AssertionsHold DEF IInv, Sound
<1>. QED
  BY <1>1, Invariance, PTL

\* A chunk that an output filters, plays or continues after is still in the pipe,
\* at whatever pace the other outputs play and whenever the player cancels, drains,
\* closes or shifts the pipe.
THEOREM NoDanglingChunkAlways == Spec => []NoDanglingChunk
<1>1. ASSUME Inv PROVE NoDanglingChunk
  <2>. SUFFICES ASSUME NEW a \in Outputs
                PROVE  LET o == ao[a] IN
                       /\ o.at \in {"filter", "device"} => Contains(pipe, o.current)
                       /\ CanPlay(o) /\ o.chunk # 0 => Contains(pipe, o.chunk)
                       /\ o.open /\ o.source = "FLUSHED" => o.chunk = 0
    BY DEF NoDanglingChunk
  <2>. DEFINE o == ao[a]
              n == Len(pipe)
  <2>1. /\ o \in Records /\ Local(a, o) /\ Data(a, o, Left, n, pushed, exists)
    BY <1>1, OutputFacts
  <2>2. /\ n \in Nat /\ pushed \in Nat /\ pushed - n \in Nat
        /\ \A m : Contains(pipe, m) <=> m \in (pushed - n + 1) .. pushed
    BY <1>1, PipeFacts DEF Inv
  <2>. HIDE DEF o, n
  <2>3. o.chunk \in Nat /\ o.current \in Nat
    BY <2>1 DEF Records
  <2>4. o.open /\ o.chunk # 0 => o.source = "OPEN" /\ Contains(pipe, o.chunk)
    <3>1. o.open /\ o.chunk # 0 => o.source = "OPEN" /\ o.chunk > pushed - n /\ o.chunk <= pushed
      BY <2>1 DEF Data
    <3>. QED
      BY <2>2, <2>3, <3>1
  <2>5. o.at \in {"filter", "device"} => o.open /\ o.current # 0
    BY <2>1 DEF Local
  <2>6. o.open /\ o.current # 0 => o.chunk = o.current
    BY <2>1 DEF Data
  <2>7. o.open /\ o.source = "FLUSHED" => o.chunk = 0
    BY <2>4
  <2>8. o.at \in {"filter", "device"} => Contains(pipe, o.current)
    BY <2>3, <2>4, <2>5, <2>6
  <2>9. CanPlay(o) /\ o.chunk # 0 => Contains(pipe, o.chunk)
    BY <2>4 DEF CanPlay
  <2>. QED
    BY <2>7, <2>8, <2>9 DEF o
<1>. QED
  BY <1>1, Invariance, PTL DEF IInv

\* Every output that stays open plays every chunk once and in order: the chunk after
\* the last it played is neither skipped nor removed from the pipe.
THEOREM EveryChunkPlayedAlways == Spec => []EveryChunkPlayed
<1>1. ASSUME Inv PROVE EveryChunkPlayed
  <2>. SUFFICES ASSUME NEW a \in Outputs, ao[a].open, ao[a].last # 0
                PROVE  /\ ao[a].current # 0 => ao[a].current = ao[a].last + 1
                       /\ ao[a].last < pushed => Contains(pipe, ao[a].last + 1)
    BY DEF EveryChunkPlayed
  <2>. DEFINE o == ao[a]
              n == Len(pipe)
  <2>1. o \in Records /\ Data(a, o, Left, n, pushed, exists) /\ o.open /\ o.last # 0
    BY <1>1, OutputFacts
  <2>2. /\ n \in Nat /\ pushed \in Nat /\ pushed - n \in Nat
        /\ \A m : Contains(pipe, m) <=> m \in (pushed - n + 1) .. pushed
    BY <1>1, PipeFacts DEF Inv
  <2>. HIDE DEF o, n
  <2>3. o.chunk \in Nat /\ o.current \in Nat /\ o.last \in Nat
    BY <2>1 DEF Records
  <2>4. CASE o.chunk # 0
    <3>1. /\ o.chunk > pushed - n
          /\ \/ o.current = 0 /\ o.last = o.chunk
             \/ o.current = o.chunk /\ o.last = o.chunk - 1
      BY <2>1, <2>4 DEF Data
    <3>2. o.current # 0 => o.current = o.last + 1
      BY <2>3, <3>1
    <3>3. o.last < pushed => o.last + 1 \in (pushed - n + 1) .. pushed
      BY <2>2, <2>3, <3>1
    <3>. QED
      BY <2>2, <3>2, <3>3 DEF o
  <2>5. CASE o.chunk = 0
    <3>1. o.current = 0 /\ (o.last = pushed - n \/ o.last = pushed)
      BY <2>1, <2>5 DEF Data
    <3>2. o.last < pushed => o.last + 1 \in (pushed - n + 1) .. pushed
      BY <2>2, <2>3, <3>1
    <3>. QED
      BY <2>2, <3>1, <3>2 DEF o
  <2>. QED
    BY <2>4, <2>5
<1>. QED
  BY <1>1, Invariance, PTL DEF IInv

\* No signal is lost: between two operations, an output that sleeps while music is
\* played has no chunk left to play and may play the next, and no thread sleeps
\* over a command, but for the one that waits after its first chunk failed.
THEOREM NoSignalLostAlways == Spec => []NoSignalLost
<1>1. ASSUME IInv PROVE NoSignalLost
  <2>0. Inv /\ PipeInv
    BY <1>1 DEF IInv, Inv
  <2>1. ASSUME NEW a \in Outputs
        PROVE  LET o == ao[a] IN
               /\ todo = << >> => o.allow
               /\ todo = << >> /\ a \in asleep /\ o.at = "loop" /\ client.open /\ ~client.paused
                     /\ o.open /\ o.source = "OPEN" => o.current = 0 /\ Get(o) = 0
    <3>. SUFFICES ASSUME todo = << >>
                  PROVE  LET o == ao[a] IN
                         /\ o.allow
                         /\ a \in asleep /\ o.at = "loop" /\ o.open /\ o.source = "OPEN"
                              => o.current = 0 /\ Get(o) = 0
      OBVIOUS
    <3>. DEFINE o == ao[a]
                n == Len(pipe)
    <3>1. Left = {}
      BY NoSteps DEF Left
    <3>2. /\ o \in Records /\ Link(a, o, {}, n) /\ Data(a, o, {}, n, pushed, exists)
          /\ Sleeper(a, o, {}, n, pushed, a \in asleep)
      BY <2>0, <3>1, OutputFacts
    <3>3. o.allow
      BY <3>2 DEF Link
    <3>4. ASSUME a \in asleep, o.at = "loop", o.open, o.source = "OPEN" PROVE o.current = 0 /\ Get(o) = 0
      <4>. HIDE DEF o, n
      <4>1. o.command = "NONE"
        BY <3>2, <3>4 DEF Sleeper
      <4>2. ~o.caught
        BY <3>2, <3>4, <4>1 DEF Link
      <4>3. o.current = 0 /\ Nothing(o, n, pushed)
        BY <3>2, <3>3, <3>4, <4>2 DEF Sleeper, CanPlay
      <4>4. o.chunk \in Nat /\ o.consumed \in BOOLEAN
        BY <3>2 DEF Records
      <4>5. o.chunk # 0 /\ o.pipe = "live" => o.chunk > pushed - n /\ o.chunk <= pushed
        BY <3>2, <3>4 DEF Data
      <4>. QED
        BY <2>0, <4>3, <4>4, <4>5, GetFacts DEF n
    <3>. QED
      BY <3>3, <3>4
  <2>2. ASSUME NEW a \in asleep PROVE ao[a].command = "NONE" \/ ao[a].at = "failed"
    <3>1. a \in Outputs
      BY <2>0 DEF Inv
    <3>2. Sleeper(a, ao[a], Left, Len(pipe), pushed, a \in asleep)
      BY <2>0, <3>1, OutputFacts
    <3>. QED
      BY <3>2 DEF Sleeper
  <2>. QED
    BY <2>1, <2>2 DEF NoSignalLost, NoOutputLeftBehind, NoCommandOverlooked
<1>. QED
  BY <1>1, Invariance, PTL

\* An output that is not configured with "always_on" plays from the pipe that exists,
\* never from one that Close() or Release() has freed.
THEOREM ReadsLivePipeAlways == Spec => []ReadsLivePipeOrAlwaysOn
<1>1. ASSUME Inv PROVE ReadsLivePipeOrAlwaysOn
  <2>1. ASSUME NEW a \in Outputs \ AlwaysOn, ao[a].open PROVE ao[a].pipe = "live"
    BY <1>1, <2>1, OutputFacts DEF Data
  <2>. QED
    BY <2>1 DEF ReadsLivePipeOrAlwaysOn, CanPlay
<1>. QED
  BY <1>1, Invariance, PTL DEF IInv
=============================================================================
