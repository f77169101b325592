-------------------------- MODULE InputQueueProofs --------------------------
(***************************************************************************)
(* What holds of the input queue for every size of the ring, every set of  *)
(* keys and commands and every number of events: main takes the command    *)
(* that it saw, and a key repeats what is held.                            *)
(***************************************************************************)
EXTENDS InputQueue, FiniteSetTheorems, TLAPS

(* The ring: a start and a length give the end.                            *)
Ring ==
    /\ cmd_queue = [i \in 0 .. QueueSize - 1 |-> cmd_queue[i]]
    /\ cmd_queue_start \in 0 .. QueueSize - 1
    /\ cmd_queue_length \in 0 .. QueueSize
    /\ cmd_queue_end = (cmd_queue_start + cmd_queue_length) % QueueSize

(* Main does not call mp_input_get_cmd while it looks at the window.       *)
Places == mpc \in {"events", "stop"} => gpc = "idle"

(* Keys and files are read when the ring is empty, or holds a NULL.        *)
Scanned == gpc \in {"keys", "files"} /\ ~passed => cmd_queue_length = 0

(* What a peek returned is at the head.                                    *)
Peeked ==
    gpc = "done" /\ Peek /\ ret # NoCmd /\ ~passed
        => cmd_queue_length > 0 /\ HeadCmd = ret

(* A call to take what was seen finds it at the head, and returns it.      *)
Taking ==
    mpc \in {"remove", "interrupted", "unpause"} /\ ~passed
        => \/ /\ gpc = "queue" /\ cmd_queue_length > 0
              /\ HeadCmd = seen /\ seen # NoCmd
           \/ gpc = "done" /\ ret = seen

Inv == Ring /\ Places /\ Scanned /\ Peeked /\ Taking

-----------------------------------------------------------------------------
(* The places of the ring.                                                 *)

Round(x) == IF x < QueueSize THEN x ELSE x - QueueSize

(* The remainder of what is small is itself.                               *)
LEMMA ModSmall ==
    ASSUME NEW x \in Nat, NEW n \in Nat \ {0}, x < n
    PROVE  x % n = x
  BY SMT

(* Once around the ring.                                                   *)
LEMMA ModHigh ==
    ASSUME NEW x \in Nat, NEW n \in Nat \ {0}, n <= x, x < n + n
    PROVE  x % n = x - n
  BY SMT

(* A place is found without a division.                                    *)
LEMMA RoundIs ==
    ASSUME NEW x \in 0 .. QueueSize + QueueSize - 1
    PROVE  x % QueueSize = Round(x) /\ Round(x) \in 0 .. QueueSize - 1
<1>1. QueueSize \in Nat \ {0} /\ x \in Nat /\ x < QueueSize + QueueSize
  BY QueueAssumption
<1>2. CASE x < QueueSize
  BY <1>1, <1>2, ModSmall DEF Round
<1>3. CASE ~(x < QueueSize)
  BY <1>1, <1>3, ModHigh DEF Round
<1> QED  BY <1>2, <1>3

(* Putting a command into the ring leaves a ring,                          *)
LEMMA QueueKeepsRing ==
    ASSUME Ring, NEW c, QueueCmd(c)
    PROVE  Ring'
<1>0. QueueSize \in Nat \ {0}
  BY QueueAssumption
<1>1. CASE Full
  BY <1>1 DEF Ring, QueueCmd, ringVars
<1>2. CASE ~Full
  <2> DEFINE x == cmd_queue_start + cmd_queue_length
  <2>1. /\ cmd_queue_start \in 0 .. QueueSize - 1
        /\ cmd_queue_length \in 0 .. QueueSize - 1
        /\ cmd_queue_length' = cmd_queue_length + 1
        /\ cmd_queue_start' = cmd_queue_start
        /\ cmd_queue_end' = (cmd_queue_end + 1) % QueueSize
        /\ cmd_queue' = [cmd_queue EXCEPT ![cmd_queue_end] = c]
    BY <1>0, <1>2 DEF Ring, QueueCmd, Full
  <2>2. cmd_queue' = [i \in 0 .. QueueSize - 1 |-> cmd_queue'[i]]
    BY <2>1 DEF Ring
  <2>3. /\ x \in 0 .. QueueSize + QueueSize - 1
        /\ x + 1 \in 0 .. QueueSize + QueueSize - 1
    BY <1>0, <2>1
  <2>4. cmd_queue_end = Round(x) /\ Round(x) \in 0 .. QueueSize - 1
    BY <2>3, RoundIs DEF Ring
  <2>5. cmd_queue_end + 1 \in 0 .. QueueSize + QueueSize - 1
    BY <1>0, <2>4
  <2>6. cmd_queue_end' = Round(cmd_queue_end + 1)
    BY <2>1, <2>5, RoundIs
  <2>7. (x + 1) % QueueSize = Round(x + 1)
    BY <2>3, RoundIs
  <2>8. Round(Round(x) + 1) = Round(x + 1)
    BY <1>0, <2>3 DEF Round
  <2>9. cmd_queue_start' + cmd_queue_length' = x + 1
    BY <1>0, <2>1
  <2> QED  BY <1>0, <2>1, <2>2, <2>4, <2>6, <2>7, <2>8, <2>9 DEF Ring
<1> QED  BY <1>1, <1>2

(* and if there was none it is the head.                                   *)
LEMMA QueueMakesHead ==
    ASSUME Ring, NEW c, QueueCmd(c), cmd_queue_length = 0
    PROVE  cmd_queue_length' > 0 /\ HeadCmd' = c
<1>0. QueueSize \in Nat \ {0} /\ cmd_queue_start \in 0 .. QueueSize - 1
  BY QueueAssumption DEF Ring
<1>1. ~Full
  BY <1>0 DEF Full
<1>2. cmd_queue_end = cmd_queue_start
  <2>1. /\ cmd_queue_start \in Nat /\ cmd_queue_start < QueueSize
        /\ cmd_queue_start + cmd_queue_length = cmd_queue_start
    BY <1>0
  <2> QED  BY <1>0, <2>1, ModSmall DEF Ring
<1>3. /\ cmd_queue' = [cmd_queue EXCEPT ![cmd_queue_end] = c]
      /\ cmd_queue_length' = 1 /\ cmd_queue_start' = cmd_queue_start
  BY <1>1 DEF QueueCmd
<1>4. cmd_queue_start \in DOMAIN cmd_queue
  BY <1>0 DEF Ring
<1> QED  BY <1>2, <1>3, <1>4 DEF HeadCmd

(* A command put behind others leaves the head.                            *)
LEMMA QueueKeepsHead ==
    ASSUME Ring, NEW c, QueueCmd(c), cmd_queue_length > 0
    PROVE  cmd_queue_length' > 0 /\ HeadCmd' = HeadCmd
<1>0. /\ QueueSize \in Nat \ {0} /\ cmd_queue_start \in 0 .. QueueSize - 1
      /\ cmd_queue_length \in 0 .. QueueSize
  BY QueueAssumption DEF Ring
<1>1. CASE Full
  BY <1>1 DEF QueueCmd, ringVars, HeadCmd
<1>2. CASE ~Full
  <2> DEFINE x == cmd_queue_start + cmd_queue_length
  <2>1. cmd_queue_length < QueueSize
    BY <1>0, <1>2 DEF Full
  <2>2. x \in 0 .. QueueSize + QueueSize - 1
    BY <1>0, <2>1
  <2>3. cmd_queue_end = Round(x)
    BY <2>2, RoundIs DEF Ring
  <2>4. Round(x) # cmd_queue_start
    BY <1>0, <2>1 DEF Round
  <2>5. /\ cmd_queue' = [cmd_queue EXCEPT ![cmd_queue_end] = c]
        /\ cmd_queue_length' = cmd_queue_length + 1
        /\ cmd_queue_start' = cmd_queue_start
    BY <1>2 DEF QueueCmd
  <2>6. cmd_queue'[cmd_queue_start] = cmd_queue[cmd_queue_start]
    BY <1>0, <2>3, <2>4, <2>5 DEF Ring
  <2> QED  BY <1>0, <2>5, <2>6 DEF HeadCmd
<1> QED  BY <1>1, <1>2

(* Taking the head leaves a ring.                                          *)
LEMMA DequeueKeepsRing ==
    ASSUME Ring, cmd_queue_length > 0, Dequeue
    PROVE  Ring'
<1>0. /\ QueueSize \in Nat \ {0} /\ cmd_queue_start \in 0 .. QueueSize - 1
      /\ cmd_queue_length \in 1 .. QueueSize
  BY QueueAssumption DEF Ring
<1> DEFINE x == cmd_queue_start + cmd_queue_length
<1>1. /\ cmd_queue_length' = cmd_queue_length - 1
      /\ cmd_queue_start' = (cmd_queue_start + 1) % QueueSize
      /\ cmd_queue' = cmd_queue /\ cmd_queue_end' = cmd_queue_end
  BY DEF Dequeue
<1>2. cmd_queue_start' = Round(cmd_queue_start + 1)
  <2>1. cmd_queue_start + 1 \in 0 .. QueueSize + QueueSize - 1
    BY <1>0
  <2> QED  BY <1>1, <2>1, RoundIs
<1>3. /\ cmd_queue_start' \in 0 .. QueueSize - 1
      /\ cmd_queue_length' \in 0 .. QueueSize - 1
  BY <1>0, <1>1, <1>2 DEF Round
<1>4. cmd_queue_end = Round(x)
  <2>1. x \in 0 .. QueueSize + QueueSize - 1
    BY <1>0
  <2> QED  BY <2>1, RoundIs DEF Ring
<1>5. (cmd_queue_start' + cmd_queue_length') % QueueSize
          = Round(cmd_queue_start' + cmd_queue_length')
  <2>1. cmd_queue_start' + cmd_queue_length'
            \in 0 .. QueueSize + QueueSize - 1
    <3>1. \A s, n \in 0 .. QueueSize - 1 :
              s + n \in 0 .. QueueSize + QueueSize - 1
      BY <1>0
    <3> QED  BY <1>3, <3>1, Zenon
  <2> QED  BY <2>1, RoundIs
<1>6. Round(cmd_queue_start' + cmd_queue_length') = Round(x)
  BY <1>0, <1>1, <1>2 DEF Round
<1> QED  BY <1>0, <1>1, <1>3, <1>4, <1>5, <1>6 DEF Ring

(* The commands behind it move up, each to the place before its own.       *)
LEMMA DequeueShifts ==
    ASSUME Ring, cmd_queue_length > 0, Dequeue
    PROVE  /\ cmd_queue_length' = cmd_queue_length - 1
           /\ HeadCmd = Queued(0) /\ cmd_queue_start = Place(0)
           /\ cmd_queue' = cmd_queue
           /\ \A k \in 0 .. cmd_queue_length - 2 :
                  Place(k)' = Place(k + 1) /\ Queued(k)' = Queued(k + 1)
<1>0. /\ QueueSize \in Nat \ {0} /\ cmd_queue_start \in 0 .. QueueSize - 1
      /\ cmd_queue_length \in 1 .. QueueSize
  BY QueueAssumption DEF Ring
<1>1. /\ cmd_queue_length' = cmd_queue_length - 1
      /\ cmd_queue_start' = (cmd_queue_start + 1) % QueueSize
      /\ cmd_queue' = cmd_queue
  BY DEF Dequeue
<1>2. cmd_queue_start = Place(0)
  <2>1. /\ cmd_queue_start \in Nat /\ cmd_queue_start < QueueSize
        /\ cmd_queue_start + 0 = cmd_queue_start
    BY <1>0
  <2> QED  BY <1>0, <2>1, ModSmall DEF Place
<1>3. HeadCmd = Queued(0)
  BY <1>2 DEF HeadCmd, Queued
<1>4. ASSUME NEW k \in 0 .. cmd_queue_length - 2
      PROVE  Place(k)' = Place(k + 1)
  <2>1. /\ cmd_queue_start + 1 \in 0 .. QueueSize + QueueSize - 1
        /\ cmd_queue_start + (k + 1) \in 0 .. QueueSize + QueueSize - 1
    BY <1>0
  <2>2. cmd_queue_start' = Round(cmd_queue_start + 1)
    BY <1>1, <2>1, RoundIs
  <2>3. Place(k + 1) = Round(cmd_queue_start + (k + 1))
    BY <2>1, RoundIs DEF Place
  <2>4. cmd_queue_start' \in 0 .. QueueSize - 1
    BY <2>1, <2>2, RoundIs
  <2>5. cmd_queue_start' + k \in 0 .. QueueSize + QueueSize - 1
    <3>1. \A s \in 0 .. QueueSize - 1 :
              s + k \in 0 .. QueueSize + QueueSize - 1
      BY <1>0
    <3> QED  BY <2>4, <3>1, Zenon
  <2>6. Place(k)' = Round(cmd_queue_start' + k)
    BY <2>5, RoundIs DEF Place
  <2>7. Round(Round(cmd_queue_start + 1) + k)
            = Round(cmd_queue_start + (k + 1))
    BY <1>0 DEF Round
  <2> QED  BY <2>2, <2>3, <2>6, <2>7
<1>5. ASSUME NEW k \in 0 .. cmd_queue_length - 2
      PROVE  Queued(k)' = Queued(k + 1)
  BY <1>1, <1>4 DEF Queued
<1> QED  BY <1>1, <1>2, <1>3, <1>4, <1>5

(* A command put into the ring goes behind the others, which stay.         *)
LEMMA QueueAppends ==
    ASSUME Ring, NEW c, QueueCmd(c), ~Full
    PROVE  /\ cmd_queue_length' = cmd_queue_length + 1
           /\ cmd_queue' = [cmd_queue EXCEPT ![cmd_queue_end] = c]
           /\ cmd_queue_end \in 0 .. QueueSize - 1
           /\ \A k \in 0 .. cmd_queue_length :
                  /\ Place(k)' = Place(k)
                  /\ Place(k) = cmd_queue_end <=> k = cmd_queue_length
                  /\ Queued(k)' = IF k = cmd_queue_length THEN c
                                  ELSE Queued(k)
<1>0. /\ QueueSize \in Nat \ {0} /\ cmd_queue_start \in 0 .. QueueSize - 1
      /\ cmd_queue_length \in 0 .. QueueSize - 1
  BY QueueAssumption DEF Ring, Full
<1>1. /\ cmd_queue_length' = cmd_queue_length + 1
      /\ cmd_queue_start' = cmd_queue_start
      /\ cmd_queue' = [cmd_queue EXCEPT ![cmd_queue_end] = c]
  BY DEF QueueCmd
<1>2. \A k \in 0 .. cmd_queue_length : Place(k)' = Place(k)
  BY <1>1 DEF Place
<1>3. ASSUME NEW k \in 0 .. cmd_queue_length
      PROVE  /\ Place(k) = Round(cmd_queue_start + k)
             /\ Place(k) \in 0 .. QueueSize - 1
  <2>1. cmd_queue_start + k \in 0 .. QueueSize + QueueSize - 1
    BY <1>0
  <2> QED  BY <2>1, RoundIs DEF Place
<1>4. cmd_queue_end = Place(cmd_queue_length)
  BY DEF Ring, Place
<1>5. ASSUME NEW k \in 0 .. cmd_queue_length
      PROVE  Place(k) = cmd_queue_end <=> k = cmd_queue_length
  BY <1>0, <1>3, <1>4 DEF Round
<1>6. ASSUME NEW k \in 0 .. cmd_queue_length
      PROVE  Queued(k)' = IF k = cmd_queue_length THEN c ELSE Queued(k)
  <2>1. Queued(k)' = cmd_queue'[Place(k)]
    BY <1>2 DEF Queued
  <2> QED  BY <1>0, <1>1, <1>3, <1>5, <2>1 DEF Queued, Ring
<1>7. cmd_queue_end \in 0 .. QueueSize - 1
  BY <1>0, <1>3, <1>4
<1> QED  BY <1>1, <1>2, <1>5, <1>6, <1>7

-----------------------------------------------------------------------------
(* The steps keep the invariant.                                           *)

(* Going on to the next source of commands.                                *)
LEMMA NotYetKeeps ==
    ASSUME Inv, gpc \in {"keys", "files"}, NEW to \in {"keys", "files"},
           NotYet(to), UNCHANGED mainVars
    PROVE  Inv'
<1>1. /\ UNCHANGED <<cmd_queue, cmd_queue_start, cmd_queue_end,
                     cmd_queue_length, passed, mpc, seen, ret>>
      /\ gpc' = to
  BY DEF NotYet, ringVars, mainVars, histVars
<1>2. Ring'
  BY <1>1 DEF Inv, Ring
<1>3. Places' /\ Scanned' /\ Peeked'
  BY <1>1 DEF Inv, Places, Scanned, Peeked
<1>4. Taking'
  BY <1>1 DEF Inv, Taking
<1> QED  BY <1>2, <1>3, <1>4 DEF Inv

(* Returning a command read from a key or a file.                          *)
LEMMA ReturnKeeps ==
    ASSUME Inv, gpc \in {"keys", "files"}, NEW what, Return(what),
           UNCHANGED mainVars
    PROVE  Inv'
<1>1. /\ UNCHANGED <<passed, mpc, seen>>
      /\ gpc' = "done" /\ ret' = NewCmd(what)
  BY DEF Return, mainVars
<1>2. Places' /\ Scanned'
  BY <1>1 DEF Inv, Places, Scanned
<1>3. Taking'
  BY <1>1 DEF Inv, Taking
<1>4. Peek' <=> Peek
  BY <1>1 DEF Peek
<1>5. CASE Peek /\ what # None
  <2>1. QueueCmd(NewCmd(what))
    BY <1>5 DEF Return
  <2>2. Ring'
    BY <2>1, QueueKeepsRing DEF Inv
  <2>3. ~passed => cmd_queue_length' > 0 /\ HeadCmd' = NewCmd(what)
    BY <2>1, QueueMakesHead DEF Inv, Scanned
  <2>4. Peeked'
    BY <1>1, <2>3 DEF Peeked
  <2> QED  BY <1>2, <1>3, <2>2, <2>4 DEF Inv
<1>6. CASE ~(Peek /\ what # None)
  <2>1. UNCHANGED <<cmd_queue, cmd_queue_start, cmd_queue_end,
                    cmd_queue_length>>
    BY <1>6 DEF Return, ringVars
  <2>2. Ring'
    BY <2>1 DEF Inv, Ring
  <2>3. ~Peek' \/ ret' = NoCmd
    BY <1>1, <1>4, <1>6 DEF NewCmd
  <2>4. Peeked'
    BY <2>3 DEF Peeked, NoCmd
  <2> QED  BY <1>2, <1>3, <2>2, <2>4 DEF Inv
<1> QED  BY <1>5, <1>6

(* Taking or looking at the head of the ring.                              *)
LEMMA GetQueuedKeeps ==
    ASSUME Inv, GetQueued
    PROVE  Inv'
<1>0. /\ gpc = "queue" /\ UNCHANGED <<mpc, seen>>
      /\ passed' = (passed \/ (cmd_queue_length > 0 /\ HeadCmd = NoCmd))
  BY DEF GetQueued, mainVars
<1>1. /\ cmd_queue_length \in Nat /\ mpc \notin {"events", "stop"}
  BY <1>0, QueueAssumption DEF Inv, Ring, Places
<1>2. CASE cmd_queue_length = 0
  <2>0. passed' <=> passed
    <3>1. ~(cmd_queue_length > 0)
      BY <1>2
    <3> QED  BY <1>0, <3>1, Zenon
  <2>1. gpc' = "keys" /\ UNCHANGED <<cmd_queue, cmd_queue_start,
                                     cmd_queue_end, cmd_queue_length>>
    BY <1>2 DEF GetQueued, ringVars
  <2>2. Ring'
    BY <2>1 DEF Inv, Ring
  <2>3. Places' /\ Scanned' /\ Peeked'
    BY <1>0, <1>1, <1>2, <2>1 DEF Places, Scanned, Peeked
  <2>4. Taking'
    BY <1>0, <1>2, <2>0 DEF Inv, Taking
  <2> QED  BY <2>2, <2>3, <2>4 DEF Inv
<1>3. CASE cmd_queue_length # 0
  <2>0. cmd_queue_length > 0
    BY <1>1, <1>3
  <2>1. /\ IF Peek THEN UNCHANGED ringVars ELSE Dequeue
        /\ IF HeadCmd = NoCmd THEN gpc' = "keys"
           ELSE gpc' = "done" /\ ret' = HeadCmd
    BY <1>3 DEF GetQueued
  <2>2. Ring'
    <3>1. CASE Peek
      BY <2>1, <3>1 DEF Inv, Ring, ringVars
    <3>2. CASE ~Peek
      BY <2>0, <2>1, <3>2, DequeueKeepsRing DEF Inv
    <3> QED  BY <3>1, <3>2
  <2>3. Places'
    BY <1>0, <1>1 DEF Places
  <2>4. CASE HeadCmd = NoCmd
    <3>1. passed'
      BY <1>0, <2>0, <2>4, Zenon
    <3> QED  BY <2>2, <2>3, <3>1 DEF Inv, Scanned, Peeked, Taking
  <2>5. CASE HeadCmd # NoCmd
    <3>1. passed' <=> passed
      BY <1>0, <2>5, Zenon
    <3>2. gpc' = "done" /\ ret' = HeadCmd
      BY <2>1, <2>5
    <3>3. Scanned'
      BY <3>2 DEF Scanned
    <3>4. Taking'
      BY <1>0, <3>1, <3>2 DEF Inv, Taking
    <3>5. Peeked'
      <4>1. CASE Peek
        <5>1. HeadCmd' = HeadCmd /\ cmd_queue_length' = cmd_queue_length
          BY <2>1, <4>1 DEF ringVars, HeadCmd
        <5> QED  BY <2>0, <3>2, <5>1 DEF Peeked
      <4>2. CASE ~Peek
        BY <1>0, <4>2 DEF Peeked, Peek
      <4> QED  BY <4>1, <4>2
    <3> QED  BY <2>2, <2>3, <3>3, <3>4, <3>5 DEF Inv
  <2> QED  BY <2>4, <2>5
<1> QED  BY <1>2, <1>3

(* Every step of mp_input_get_cmd.                                         *)
LEMMA GetCmdKeeps ==
    ASSUME Inv, GetCmd
    PROVE  Inv'
<1>1. CASE GetQueued
  BY <1>1, GetQueuedKeeps
<1>2. CASE ReadKeyDown
  <2>1. gpc = "keys" /\ NotYet("keys") /\ UNCHANGED mainVars
    BY <1>2 DEF ReadKeyDown, NextEvent
  <2> QED  BY <2>1, NotYetKeeps
<1>3. CASE ReadKeyUp
  <2>1. gpc = "keys" /\ UNCHANGED mainVars
    BY <1>3 DEF ReadKeyUp, NextEvent
  <2>2. NotYet("keys") \/ \E what : Return(what)
    BY <1>3 DEF ReadKeyUp
  <2> QED  BY <2>1, <2>2, NotYetKeeps, ReturnKeeps
<1>4. CASE StartRepeat \/ Repeat \/ NoKey
  <2>1. gpc = "keys" /\ UNCHANGED mainVars
    BY <1>4 DEF StartRepeat, Repeat, NoKey
  <2>2. NotYet("files") \/ \E what : Return(what)
    BY <1>4 DEF StartRepeat, Repeat, NoKey
  <2> QED  BY <2>1, <2>2, NotYetKeeps, ReturnKeeps
<1>5. CASE ReadCmds
  <2>1. /\ gpc = "files" /\ UNCHANGED mainVars
        /\ \E what : Return(what)
    BY <1>5 DEF ReadCmds
  <2> QED  BY <2>1, ReturnKeeps
<1> QED  BY <1>1, <1>2, <1>3, <1>4, <1>5 DEF GetCmd

(* Every step of main.                                                     *)
LEMMA MainKeeps ==
    ASSUME Inv, Main
    PROVE  Inv'
<1>1. CASE GetCmd
  BY <1>1, GetCmdKeeps
<1>2. CASE WindowKey
  <2>1. PICK c : QueueCmd(c)
    BY <1>2 DEF WindowKey
  <2>2. Ring'
    BY <2>1, QueueKeepsRing DEF Inv
  <2>3. mpc = "events" /\ UNCHANGED <<mpc, gpc, seen, passed, ret>>
    BY <1>2 DEF WindowKey, mainVars, OthersOfMain
  <2>4. gpc = "idle"
    BY <2>3 DEF Inv, Places
  <2> QED
    BY <2>2, <2>3, <2>4 DEF Inv, Places, Scanned, Peeked, Taking
<1>3. ASSUME Main, ~GetCmd, ~WindowKey
      PROVE  /\ UNCHANGED <<cmd_queue, cmd_queue_start, cmd_queue_end,
                            cmd_queue_length, passed, ret>>
             /\ gpc' \in {"queue", "idle"}
             /\ mpc' \in {"events", "stop"} => gpc' = "idle"
  BY <1>3
  DEF Main, CheckInterrupt, Removed, WasInterrupted, NoMoreEvents,
      PausePeeked, Unpaused, HandleCmd, Handled, Call, Jump, ringVars,
      histVars, OthersOfMain
<1>4. CASE ~GetCmd /\ ~WindowKey
  <2>1. Ring' /\ Places' /\ Scanned' /\ Peeked'
    BY <1>3, <1>4 DEF Inv, Ring, Places, Scanned, Peeked
  <2>2. Taking'
    <3>1. CASE CheckInterrupt \/ PausePeeked
      <4>1. gpc = "done" /\ Peek /\ seen' = ret
        BY <3>1 DEF CheckInterrupt, PausePeeked, Got, Peek
      <4>2. mpc' \in {"remove", "interrupted", "unpause"}
                => gpc' = "queue" /\ ret # NoCmd
        BY <3>1 DEF CheckInterrupt, PausePeeked, Call, Jump, Interrupting,
                    NoCmd, None
      <4>3. HeadCmd' = HeadCmd /\ UNCHANGED <<cmd_queue_length, passed>>
        BY <1>3, <1>4 DEF HeadCmd
      <4> QED  BY <4>1, <4>2, <4>3 DEF Inv, Peeked, Taking
    <3>2. CASE ~(CheckInterrupt \/ PausePeeked)
      <4>1. mpc' \notin {"remove", "interrupted", "unpause"}
        BY <1>4, <3>2
        DEF Main, Removed, WasInterrupted, NoMoreEvents, Unpaused, HandleCmd,
            Handled, Call, Jump
      <4> QED  BY <4>1 DEF Taking
    <3> QED  BY <3>1, <3>2
  <2> QED  BY <2>1, <2>2 DEF Inv
<1> QED  BY <1>1, <1>2, <1>4

(* The initial state.                                                      *)
LEMMA InitInv == Init => Inv
<1> SUFFICES ASSUME Init PROVE Inv
  OBVIOUS
<1>1. Ring
  <2>1. (0 + 0) % QueueSize = 0
    BY QueueAssumption, ModSmall
  <2>2. cmd_queue = [i \in 0 .. QueueSize - 1 |-> cmd_queue[i]]
    BY DEF Init
  <2> QED  BY <2>1, <2>2, QueueAssumption DEF Init, Ring
<1> QED  BY <1>1 DEF Init, Inv, Places, Scanned, Peeked, Taking

(* Every step.                                                             *)
LEMMA NextInv == Inv /\ [Next]_vars => Inv'
<1> SUFFICES ASSUME Inv, [Next]_vars PROVE Inv'
  OBVIOUS
<1>1. CASE User
  <2>1. UNCHANGED <<cmd_queue, cmd_queue_start, cmd_queue_end,
                    cmd_queue_length, mpc, seen, gpc, ret, passed>>
    BY <1>1 DEF User, ringVars, mainVars, histVars
  <2> QED
    BY <2>1 DEF Inv, Ring, Places, Scanned, Peeked, Taking, Peek, HeadCmd
<1>2. CASE Main
  BY <1>2, MainKeeps
<1>3. CASE UNCHANGED vars
  <2>1. UNCHANGED <<cmd_queue, cmd_queue_start, cmd_queue_end,
                    cmd_queue_length, mpc, seen, gpc, ret, passed>>
    BY <1>3 DEF vars, ringVars, mainVars, histVars
  <2> QED
    BY <2>1 DEF Inv, Ring, Places, Scanned, Peeked, Taking, Peek, HeadCmd
<1> QED  BY <1>1, <1>2, <1>3 DEF Next

(* The invariant, in every behaviour.                                      *)
THEOREM InputInv == Spec => []Inv
<1>1. Init => Inv
  BY InitInv
<1>2. Inv /\ [Next]_vars => Inv'
  BY NextInv
<1> QED  BY <1>1, <1>2, PTL DEF Spec

(* TakesWhatItSaw (input.cpp:1423-1426, main.cpp:1222): the command that    *)
(* main takes after a peek is the one that it saw.                         *)
THEOREM InputTakesWhatItSaw == Spec => []TakesWhatItSaw
<1>1. Inv => TakesWhatItSaw
  BY DEF Inv, Taking, TakesWhatItSaw
<1> QED  BY <1>1, InputInv, PTL

-----------------------------------------------------------------------------
(* Repetition.                                                             *)

(* Most steps leave the keys alone.                                        *)
LEMMA KeysAlone ==
    ASSUME RepeatsWhatIsHeld, UNCHANGED keyVars
    PROVE  RepeatsWhatIsHeld'
  BY DEF RepeatsWhatIsHeld, keyVars

(* A key that is read ends the repetition.                                 *)
LEMMA KeysRead ==
    ASSUME RepeatsWhatIsHeld, ReadKeyDown \/ ReadKeyUp
    PROVE  RepeatsWhatIsHeld'
<1>1. UNCHANGED keyVars \/ ar_state' \in {-1, 0}
  BY DEF ReadKeyDown, ReadKeyUp, Pressed
<1>2. ASSUME ar_state' \in {-1, 0}
      PROVE  RepeatsWhatIsHeld'
  BY <1>2 DEF RepeatsWhatIsHeld
<1> QED  BY <1>1, <1>2, KeysAlone

(* A repetition starts with the keys that are down.                        *)
LEMMA KeysRepeat ==
    ASSUME StartRepeat
    PROVE  RepeatsWhatIsHeld'
  BY DEF StartRepeat, RepeatsWhatIsHeld, Bind

(* RepeatsWhatIsHeld (input.cpp:897-913): what a held key repeats is the   *)
(* command of the keys that are down.                                      *)
THEOREM InputRepeatsWhatIsHeld == Spec => []RepeatsWhatIsHeld
<1>1. Init => RepeatsWhatIsHeld
  BY DEF Init, RepeatsWhatIsHeld
<1>2. ASSUME RepeatsWhatIsHeld, [Next]_vars
      PROVE  RepeatsWhatIsHeld'
  <2>1. CASE UNCHANGED vars \/ User
    BY <1>2, <2>1, KeysAlone DEF vars, User
  <2>2. CASE GetCmd
    <3>1. CASE ReadKeyDown \/ ReadKeyUp
      BY <1>2, <3>1, KeysRead
    <3>2. CASE StartRepeat
      BY <3>2, KeysRepeat
    <3>3. CASE GetQueued \/ Repeat \/ NoKey \/ ReadCmds
      <4>1. UNCHANGED keyVars
        BY <3>3, Zenon DEF GetQueued, Repeat, NoKey, ReadCmds
      <4> QED  BY <1>2, <4>1, KeysAlone
    <3> QED  BY <2>2, <3>1, <3>2, <3>3 DEF GetCmd
  <2>3. CASE Main /\ ~GetCmd
    <3>1. UNCHANGED keyVars
      BY <2>3, Zenon
      DEF Main, CheckInterrupt, Removed, WasInterrupted, WindowKey,
          NoMoreEvents, PausePeeked, Unpaused, HandleCmd, Handled,
          OthersOfMain
    <3> QED  BY <1>2, <3>1, KeysAlone
  <2> QED  BY <1>2, <2>1, <2>2, <2>3 DEF Next
<1> QED  BY <1>1, <1>2, PTL DEF Spec

-----------------------------------------------------------------------------
(* The order of the ring.                                                  *)

(* Commands in the ring are numbered, in order, after the last handed out. *)
Numbered ==
    /\ issued \in Nat /\ served \in 0 .. issued
    /\ \A k \in Waiting : Real(Queued(k)) =>
           /\ Queued(k).id \in 1 .. issued
           /\ ~passed => Queued(k).id > served
           /\ \A j \in 0 .. k - 1 :
                  Real(Queued(j)) => Queued(j).id < Queued(k).id

(* A command put into the ring, or refused, leaves the ring numbered.      *)
LEMMA QueueKeepsNumbers ==
    ASSUME Ring, Numbered, NEW what, QueueCmd(NewCmd(what)), Issue(what),
           UNCHANGED <<served, passed>>
    PROVE  Numbered'
<1>0. /\ cmd_queue_length \in Nat /\ QueueSize \in Nat
      /\ issued \in Nat /\ served \in 0 .. issued
  BY QueueAssumption DEF Ring, Numbered
<1>1. /\ issued' \in {issued, issued + 1}
      /\ what # None => issued' = issued + 1
      /\ Real(NewCmd(what)) => what # None /\ NewCmd(what).id = issued + 1
  BY DEF Issue, NewCmd, Real
<1>2. CASE Full
  <2>1. /\ Waiting' = Waiting
        /\ \A k \in Int : Queued(k)' = Queued(k)
    BY <1>2 DEF QueueCmd, ringVars, Waiting, Queued, Place
  <2>2. Waiting \subseteq Int /\ \A k \in Waiting : 0 .. k - 1 \subseteq Int
    BY <1>0 DEF Waiting
  <2> QED  BY <1>0, <1>1, <2>1, <2>2 DEF Numbered, Real
<1>3. CASE ~Full
  <2> DEFINE c == NewCmd(what)
  <2>1. /\ cmd_queue_length' = cmd_queue_length + 1
        /\ \A k \in 0 .. cmd_queue_length :
               Queued(k)' = IF k = cmd_queue_length THEN c ELSE Queued(k)
    BY <1>3, QueueAppends
  <2>2. issued' \in Nat /\ served' \in 0 .. issued'
    BY <1>0, <1>1
  <2>3. ASSUME NEW k \in Waiting', Real(Queued(k)')
        PROVE  /\ Queued(k)'.id \in 1 .. issued'
               /\ ~passed' => Queued(k)'.id > served'
               /\ \A j \in 0 .. k - 1 :
                      Real(Queued(j)') => Queued(j)'.id < Queued(k)'.id
    <3>1. k \in 0 .. cmd_queue_length
      BY <1>0, <2>1 DEF Waiting
    <3>2. \A j \in 0 .. k - 1 : j \in Waiting /\ Queued(j)' = Queued(j)
      BY <1>0, <2>1, <3>1 DEF Waiting
    <3>3. CASE k = cmd_queue_length
      <4>1. Queued(k)' = c /\ c.id = issued + 1 /\ issued' = issued + 1
        BY <1>1, <2>1, <2>3, <3>1, <3>3
      <4>2. \A j \in 0 .. k - 1 :
                Real(Queued(j)) => Queued(j).id \in 1 .. issued
        BY <3>2 DEF Numbered
      <4> QED  BY <1>0, <3>2, <4>1, <4>2
    <3>4. CASE k # cmd_queue_length
      <4>1. k \in Waiting /\ Queued(k)' = Queued(k)
        BY <1>0, <2>1, <3>1, <3>4 DEF Waiting
      <4>2. /\ Queued(k).id \in 1 .. issued
            /\ ~passed => Queued(k).id > served
            /\ \A j \in 0 .. k - 1 :
                   Real(Queued(j)) => Queued(j).id < Queued(k).id
        BY <2>3, <4>1 DEF Numbered
      <4>3. Queued(k).id \in 1 .. issued'
        BY <1>0, <1>1, <4>2
      <4> QED  BY <3>2, <4>1, <4>2, <4>3
    <3> QED  BY <3>3, <3>4
  <2> QED  BY <2>2, <2>3 DEF Numbered, Real
<1> QED  BY <1>2, <1>3

(* Handing out the head leaves it numbered: the others are later.          *)
LEMMA DequeueKeepsNumbers ==
    ASSUME Ring, Numbered, cmd_queue_length > 0, Dequeue, HandOut(HeadCmd),
           issued' = issued, HeadCmd = NoCmd => passed',
           HeadCmd # NoCmd => (passed' <=> passed)
    PROVE  Numbered'
<1>0. /\ cmd_queue_length \in Nat \ {0} /\ QueueSize \in Nat
      /\ issued \in Nat /\ served \in 0 .. issued
  BY QueueAssumption DEF Ring, Numbered
<1>1. /\ cmd_queue_length' = cmd_queue_length - 1
      /\ HeadCmd = Queued(0)
      /\ \A k \in 0 .. cmd_queue_length - 2 : Queued(k)' = Queued(k + 1)
  BY DequeueShifts
<1>2. 0 \in Waiting
  BY <1>0 DEF Waiting
<1>3. HeadCmd # NoCmd => served' = Queued(0).id /\ Queued(0).id \in 1 .. issued
  BY <1>1, <1>2 DEF Numbered, Real, HandOut
<1>4. served' \in 0 .. issued'
  <2>1. HeadCmd = NoCmd => served' = served
    BY DEF HandOut
  <2> QED  BY <1>0, <1>3, <2>1
<1>5. ASSUME NEW k \in Waiting', Real(Queued(k)')
      PROVE  /\ Queued(k)'.id \in 1 .. issued'
             /\ ~passed' => Queued(k)'.id > served'
             /\ \A j \in 0 .. k - 1 :
                    Real(Queued(j)') => Queued(j)'.id < Queued(k)'.id
  <2>1. /\ k \in 0 .. cmd_queue_length - 2 /\ k + 1 \in Waiting
        /\ 0 \in 0 .. (k + 1) - 1
    BY <1>0, <1>1 DEF Waiting
  <2>2. Queued(k)' = Queued(k + 1) /\ Real(Queued(k + 1))
    BY <1>1, <1>5, <2>1
  <2>3. /\ Queued(k + 1).id \in 1 .. issued
        /\ \A j \in 0 .. (k + 1) - 1 :
               Real(Queued(j)) => Queued(j).id < Queued(k + 1).id
    BY <2>1, <2>2 DEF Numbered
  <2>4. ~passed' => Queued(k + 1).id > served'
    <3>1. ASSUME ~passed'
          PROVE  Queued(0).id < Queued(k + 1).id /\ served' = Queued(0).id
      BY <1>1, <1>3, <2>1, <2>3, <3>1 DEF Real
    <3>2. ASSUME ~passed'
          PROVE  Queued(0).id \in 1 .. issued
      BY <1>3, <3>2
    <3> QED  BY <1>0, <2>3, <3>1, <3>2
  <2>5. ASSUME NEW j \in 0 .. k - 1, Real(Queued(j)')
        PROVE  Queued(j)'.id < Queued(k)'.id
    <3>1. /\ j \in 0 .. cmd_queue_length - 2
          /\ j + 1 \in 0 .. (k + 1) - 1
      BY <1>0, <2>1
    <3>2. Queued(j)' = Queued(j + 1)
      BY <1>1, <3>1
    <3> QED  BY <2>2, <2>3, <2>5, <3>1, <3>2
  <2> QED  BY <2>2, <2>3, <2>4, <2>5
<1> QED  BY <1>0, <1>4, <1>5 DEF Numbered, Real

(* What leaves the ring alone leaves it numbered.                          *)
LEMMA NumbersAlone ==
    ASSUME Numbered, UNCHANGED <<ringVars, issued, served>>,
           passed' <=> passed
    PROVE  Numbered'
  BY DEF Numbered, ringVars, Waiting, Queued, Place, Real

(* So does a command that is read: if it is handed out the ring is empty.  *)
LEMMA ReturnKeepsNumbers ==
    ASSUME Ring, Scanned, Numbered, gpc \in {"keys", "files"}, NEW what,
           Return(what)
    PROVE  Numbered'
<1>0. passed' = passed /\ Issue(what)
  BY DEF Return
<1>1. CASE Peek /\ what # None
  BY <1>0, <1>1, QueueKeepsNumbers DEF Return
<1>2. CASE what = None
  <2>1. HandOut(NoCmd) /\ UNCHANGED ringVars /\ issued' = issued
    BY <1>2 DEF Return, NewCmd, Issue
  <2> QED  BY <1>0, <2>1, NumbersAlone DEF HandOut
<1>3. CASE ~Peek /\ what # None
  <2>1. /\ UNCHANGED ringVars /\ issued' = issued + 1
        /\ HandOut(NewCmd(what)) /\ NewCmd(what).id = issued + 1
    BY <1>3 DEF Return, NewCmd, Issue
  <2>2. issued' \in Nat /\ served' \in 0 .. issued'
    <3>1. issued \in Nat /\ served \in 0 .. issued
      BY DEF Numbered
    <3>2. served' = served \/ served' = issued + 1
      BY <2>1 DEF HandOut
    <3> QED  BY <2>1, <3>1, <3>2
  <2>3. Waiting' = Waiting /\ \A k : Queued(k)' = Queued(k)
    BY <2>1 DEF ringVars, Waiting, Queued, Place
  <2>4. ~passed => Waiting = {}
    BY DEF Scanned, Waiting
  <2>5. ASSUME NEW x \in 1 .. issued
        PROVE  x \in 1 .. issued'
    BY <2>1, <2>5 DEF Numbered
  <2> QED  BY <1>0, <2>2, <2>3, <2>4, <2>5 DEF Numbered, Real
<1> QED  BY <1>1, <1>2, <1>3

(* Every step leaves the ring numbered.                                    *)
LEMMA NextNumbers ==
    ASSUME Ring, Scanned, Numbered, [Next]_vars
    PROVE  Numbered'
<1>1. CASE UNCHANGED vars \/ User
  BY <1>1, NumbersAlone DEF vars, User, histVars
<1>2. CASE GetQueued
  <2>1. passed' = (passed \/ (cmd_queue_length > 0 /\ HeadCmd = NoCmd))
    BY <1>2 DEF GetQueued
  <2>2. issued' = issued
    BY <1>2 DEF GetQueued
  <2>3. cmd_queue_length \in Nat
    BY QueueAssumption DEF Ring
  <2>4. CASE cmd_queue_length = 0
    <3>1. ~(cmd_queue_length > 0)
      BY <2>4
    <3>2. passed' <=> passed
      BY <2>1, <3>1, Zenon
    <3>3. UNCHANGED <<ringVars, served>>
      BY <1>2, <2>4 DEF GetQueued
    <3> QED  BY <2>2, <3>2, <3>3, NumbersAlone
  <2>5. CASE cmd_queue_length # 0
    <3>1. cmd_queue_length > 0
      BY <2>3, <2>5
    <3>2. HeadCmd = NoCmd => passed'
      BY <2>1, <3>1, Zenon
    <3>3. HeadCmd # NoCmd => (passed' <=> passed)
      BY <2>1, Zenon
    <3>4. CASE Peek
      <4>1. UNCHANGED <<ringVars, served>>
        BY <1>2, <2>5, <3>4 DEF GetQueued
      <4>2. CASE HeadCmd # NoCmd
        BY <2>2, <3>3, <4>1, <4>2, NumbersAlone
      <4>3. CASE HeadCmd = NoCmd
        BY <2>2, <3>2, <4>1, <4>3
        DEF Numbered, ringVars, Waiting, Queued, Place, Real
      <4> QED  BY <4>2, <4>3
    <3>5. CASE ~Peek
      <4>1. Dequeue /\ HandOut(HeadCmd)
        BY <1>2, <2>5, <3>5 DEF GetQueued
      <4> QED  BY <2>2, <3>1, <3>2, <3>3, <4>1, DequeueKeepsNumbers
    <3> QED  BY <3>4, <3>5
  <2> QED  BY <2>4, <2>5
<1>3. CASE ReadKeyDown \/ NoKey
  <2>1. UNCHANGED <<ringVars, issued, served, passed>>
    BY <1>3 DEF ReadKeyDown, NoKey, NotYet, histVars
  <2> QED  BY <2>1, NumbersAlone
<1>4. CASE ReadKeyUp \/ StartRepeat \/ Repeat \/ ReadCmds
  <2>1. gpc \in {"keys", "files"}
    BY <1>4 DEF ReadKeyUp, NextEvent, StartRepeat, Repeat, ReadCmds
  <2>2. UNCHANGED <<ringVars, issued, served, passed>> \/ \E what : Return(what)
    BY <1>4 DEF ReadKeyUp, StartRepeat, Repeat, ReadCmds, NotYet, histVars
  <2> QED  BY <2>1, <2>2, NumbersAlone, ReturnKeepsNumbers
<1>5. CASE WindowKey
  BY <1>5, QueueKeepsNumbers DEF WindowKey
<1>6. CASE Main /\ ~GetCmd /\ ~WindowKey
  <2>1. UNCHANGED <<ringVars, issued, served, passed>>
    BY <1>6, Zenon
    DEF Main, CheckInterrupt, Removed, WasInterrupted, NoMoreEvents,
        PausePeeked, Unpaused, HandleCmd, Handled, histVars
  <2> QED  BY <2>1, NumbersAlone
<1> QED
  BY <1>1, <1>2, <1>3, <1>4, <1>5, <1>6 DEF Next, Main, GetCmd

(* The numbers, in every behaviour.                                        *)
THEOREM InputNumbered == Spec => []Numbered
<1>1. Init => Numbered
  <2> SUFFICES ASSUME Init PROVE Numbered
    OBVIOUS
  <2>1. Waiting = {}
    BY DEF Init, Waiting
  <2> QED  BY <2>1 DEF Init, Numbered
<1>2. Inv /\ Numbered /\ [Next]_vars => Numbered'
  BY NextNumbers DEF Inv
<1> QED  BY <1>1, <1>2, InputInv, PTL DEF Spec

(* QueueInOrder (input.cpp:955-975): the ring holds the commands in the    *)
(* order in which they were made, all after the last one handed out.       *)
THEOREM InputQueueInOrder == Spec => []QueueInOrder
<1>1. Inv /\ Numbered => QueueInOrder
  <2> SUFFICES ASSUME Inv, Numbered PROVE QueueInOrder
    OBVIOUS
  <2>1. cmd_queue_end = Place(cmd_queue_length)
    BY DEF Inv, Ring, Place
  <2> QED  BY <2>1 DEF Numbered, QueueInOrder
<1> QED  BY <1>1, InputInv, InputNumbered, PTL

-----------------------------------------------------------------------------
(* The count of the commands.                                              *)

Counted == {issued, taken, refused} \subseteq Nat /\ NothingLost

(* A command is not NULL if it says something.                             *)
LEMMA RealIs ==
    ASSUME issued \in Nat, NEW what
    PROVE  Real(NewCmd(what)) <=> what # None
<1>1. CASE what = None
  BY <1>1 DEF NewCmd, Real
<1>2. CASE what # None
  <2>1. NewCmd(what).id = issued + 1 /\ NoCmd.id = 0
    BY <1>2 DEF NewCmd, NoCmd
  <2> QED  BY <1>2, <2>1 DEF Real
<1> QED  BY <1>1, <1>2

(* The places of the ring are finitely many.                               *)
LEMMA InRingFinite ==
    ASSUME Ring
    PROVE  IsFiniteSet(InRing) /\ Cardinality(InRing) \in Nat
<1>0. /\ QueueSize \in Nat \ {0} /\ cmd_queue_start \in 0 .. QueueSize - 1
      /\ cmd_queue_length \in 0 .. QueueSize
  BY QueueAssumption DEF Ring
<1>1. ASSUME NEW k \in Waiting
      PROVE  Place(k) \in 0 .. QueueSize - 1
  <2>1. cmd_queue_start + k \in 0 .. QueueSize + QueueSize - 1
    BY <1>0 DEF Waiting
  <2> QED  BY <2>1, RoundIs DEF Place
<1>2. InRing \subseteq 0 .. QueueSize - 1
  BY <1>1 DEF InRing
<1>3. IsFiniteSet(0 .. QueueSize - 1)
  BY <1>0, FS_Interval
<1>4. IsFiniteSet(InRing)
  BY <1>2, <1>3, FS_Subset
<1> QED  BY <1>4, FS_CardinalityType

(* A command put into the ring is one more.                                *)
LEMMA QueueCounts ==
    ASSUME Ring, NEW c, QueueCmd(c), ~Full
    PROVE  Cardinality(InRing)' = IF Real(c) THEN Cardinality(InRing) + 1
                                  ELSE Cardinality(InRing)
<1>0. cmd_queue_length \in Nat /\ Waiting = 0 .. cmd_queue_length - 1
  BY QueueAssumption DEF Ring, Waiting
<1>1. /\ cmd_queue_length' = cmd_queue_length + 1
      /\ cmd_queue' = [cmd_queue EXCEPT ![cmd_queue_end] = c]
      /\ cmd_queue_end \in DOMAIN cmd_queue
      /\ \A k \in 0 .. cmd_queue_length :
             /\ Place(k)' = Place(k)
             /\ Place(k) = cmd_queue_end <=> k = cmd_queue_length
  BY QueueAppends DEF Ring
<1>2. Waiting' = Waiting \cup {cmd_queue_length}
  BY <1>0, <1>1 DEF Waiting
<1>3. \A k \in Waiting : k \in 0 .. cmd_queue_length /\ k # cmd_queue_length
  BY <1>0
<1>4. cmd_queue_length \in 0 .. cmd_queue_length
  BY <1>0
<1>5. \A i : i # cmd_queue_end => cmd_queue'[i] = cmd_queue[i]
  BY <1>1 DEF Ring
<1>6. cmd_queue'[cmd_queue_end] = c
  BY <1>1
<1> DEFINE P == {Place(k) : k \in Waiting}
<1>7. P' = P \cup {cmd_queue_end} /\ cmd_queue_end \notin P
  <2>1. P' = {Place(k)' : k \in Waiting \cup {cmd_queue_length}}
    BY <1>2
  <2> QED  BY <1>1, <1>3, <1>4, <2>1
<1>8. InRing = {i \in P : Real(cmd_queue[i])}
  BY DEF InRing
<1>9. InRing' = {i \in P' : Real(cmd_queue'[i])}
  BY DEF InRing, Real
<1> HIDE DEF P
<1>10. InRing' = IF Real(c) THEN InRing \cup {cmd_queue_end} ELSE InRing
  BY <1>5, <1>6, <1>7, <1>8, <1>9
<1>11. cmd_queue_end \notin InRing
  BY <1>7, <1>8
<1>12. Cardinality(InRing)' = Cardinality(InRing')
  OBVIOUS
<1> QED  BY <1>10, <1>11, <1>12, InRingFinite, FS_AddElement

(* The head that is taken is one less.                                     *)
LEMMA DequeueCounts ==
    ASSUME Ring, cmd_queue_length > 0, Dequeue
    PROVE  Cardinality(InRing)' = IF Real(HeadCmd) THEN Cardinality(InRing) - 1
                                  ELSE Cardinality(InRing)
<1>0. /\ cmd_queue_length \in Nat \ {0} /\ QueueSize \in Nat \ {0}
      /\ cmd_queue_start \in 0 .. QueueSize - 1
      /\ cmd_queue_length <= QueueSize
  BY QueueAssumption DEF Ring
<1>1. /\ cmd_queue_length' = cmd_queue_length - 1
      /\ cmd_queue' = cmd_queue /\ cmd_queue_start = Place(0)
      /\ \A k \in 0 .. cmd_queue_length - 2 : Place(k)' = Place(k + 1)
  BY DequeueShifts
<1> DEFINE P == {Place(k) : k \in Waiting}
<1>2. ASSUME NEW k \in 1 .. cmd_queue_length - 1
      PROVE  Place(k) # cmd_queue_start
  <2>1. cmd_queue_start + k \in 0 .. QueueSize + QueueSize - 1
    BY <1>0
  <2>2. Place(k) = Round(cmd_queue_start + k)
    BY <2>1, RoundIs DEF Place
  <2> QED  BY <1>0, <2>2 DEF Round
<1>3. P' = P \ {cmd_queue_start}
  <2>1. ASSUME NEW k \in Waiting'
        PROVE  Place(k)' \in P \ {cmd_queue_start}
    <3>1. /\ k \in 0 .. cmd_queue_length - 2
          /\ k + 1 \in 1 .. cmd_queue_length - 1 /\ k + 1 \in Waiting
      BY <1>0, <1>1 DEF Waiting
    <3> QED  BY <1>1, <1>2, <3>1
  <2>2. ASSUME NEW k \in Waiting, Place(k) # cmd_queue_start
        PROVE  \E n \in Waiting' : Place(k) = Place(n)'
    <3>1. k # 0
      BY <1>1, <2>2
    <3>2. /\ k - 1 \in 0 .. cmd_queue_length - 2 /\ (k - 1) + 1 = k
          /\ k - 1 \in Waiting'
      BY <1>0, <1>1, <3>1 DEF Waiting
    <3> QED  BY <1>1, <3>2
  <2>3. P' = {Place(k)' : k \in Waiting'}
    OBVIOUS
  <2> QED  BY <2>1, <2>2, <2>3
<1>4. cmd_queue_start \in P
  <2>1. 0 \in Waiting
    BY <1>0 DEF Waiting
  <2> QED  BY <1>1, <2>1
<1>5. InRing = {i \in P : Real(cmd_queue[i])}
  BY DEF InRing
<1>6. InRing' = {i \in P' : Real(cmd_queue'[i])}
  BY DEF InRing, Real
<1> HIDE DEF P
<1>7. InRing' = InRing \ {cmd_queue_start}
  BY <1>1, <1>3, <1>5, <1>6
<1>8. cmd_queue_start \in InRing <=> Real(HeadCmd)
  BY <1>4, <1>5 DEF HeadCmd
<1>9. Cardinality(InRing)' = Cardinality(InRing')
  OBVIOUS
<1> QED  BY <1>7, <1>8, <1>9, InRingFinite, FS_RemoveElement

(* Putting a command into the ring counts it there or as refused.          *)
LEMMA QueueKeepsCount ==
    ASSUME Ring, Counted, NEW what, QueueCmd(NewCmd(what)), Issue(what),
           UNCHANGED taken
    PROVE  Counted'
<1>0. /\ {issued, taken, refused} \subseteq Nat
      /\ issued = taken + refused + Cardinality(InRing)
      /\ Cardinality(InRing) \in Nat
      /\ Real(NewCmd(what)) <=> what # None
  BY InRingFinite, RealIs DEF Counted, NothingLost
<1>1. issued' = IF what = None THEN issued ELSE issued + 1
  BY DEF Issue
<1>2. CASE Full
  <2>1. InRing' = InRing
    BY <1>2 DEF QueueCmd, ringVars, InRing, Waiting, Place, Real
  <2>2. refused' = IF what = None THEN refused ELSE refused + 1
    BY <1>0, <1>2 DEF QueueCmd, Real
  <2>3. Cardinality(InRing)' = Cardinality(InRing)
    BY <2>1
  <2> QED  BY <1>0, <1>1, <2>2, <2>3 DEF Counted, NothingLost
<1>3. CASE ~Full
  <2>1. Cardinality(InRing)' = IF what # None THEN Cardinality(InRing) + 1
                               ELSE Cardinality(InRing)
    BY <1>0, <1>3, QueueCounts
  <2>2. refused' = refused
    BY <1>3 DEF QueueCmd
  <2> QED  BY <1>0, <1>1, <2>1, <2>2 DEF Counted, NothingLost
<1> QED  BY <1>2, <1>3

(* What leaves the ring alone leaves the count.                            *)
LEMMA CountAlone ==
    ASSUME Counted, UNCHANGED <<ringVars, issued, taken, refused>>
    PROVE  Counted'
<1>1. InRing' = InRing
  BY DEF ringVars, InRing, Waiting, Place, Real
<1> QED  BY <1>1 DEF Counted, NothingLost

(* A command that is read is handed out, or put into the ring.             *)
LEMMA ReturnKeepsCount ==
    ASSUME Ring, Counted, NEW what, Return(what)
    PROVE  Counted'
<1>0. Issue(what)
  BY DEF Return
<1>1. CASE Peek /\ what # None
  BY <1>0, <1>1, QueueKeepsCount DEF Return
<1>2. CASE ~(Peek /\ what # None)
  <2>1. UNCHANGED <<ringVars, refused>> /\ HandOut(NewCmd(what))
    BY <1>2 DEF Return
  <2>2. /\ {issued, taken, refused} \subseteq Nat
        /\ issued = taken + refused + Cardinality(InRing)
        /\ Cardinality(InRing) \in Nat
        /\ Real(NewCmd(what)) <=> what # None
    BY InRingFinite, RealIs DEF Counted, NothingLost
  <2>3. InRing' = InRing
    BY <2>1 DEF ringVars, InRing, Waiting, Place, Real
  <2>4. Cardinality(InRing)' = Cardinality(InRing)
    BY <2>3
  <2>5. /\ issued' = IF what = None THEN issued ELSE issued + 1
        /\ taken' = IF what = None THEN taken ELSE taken + 1
    BY <1>0, <2>1, <2>2 DEF Issue, HandOut, Real
  <2> QED  BY <2>1, <2>2, <2>4, <2>5 DEF Counted, NothingLost
<1> QED  BY <1>1, <1>2

(* Every step keeps the count.                                             *)
LEMMA NextCount ==
    ASSUME Ring, Counted, [Next]_vars
    PROVE  Counted'
<1>1. CASE UNCHANGED vars \/ User
  BY <1>1, CountAlone DEF vars, User, histVars
<1>2. CASE GetQueued
  <2>1. UNCHANGED <<issued, refused>>
    BY <1>2 DEF GetQueued
  <2>2. CASE cmd_queue_length = 0 \/ Peek
    <3>1. UNCHANGED <<ringVars, taken>>
      BY <1>2, <2>2 DEF GetQueued
    <3> QED  BY <2>1, <3>1, CountAlone
  <2>3. CASE cmd_queue_length # 0 /\ ~Peek
    <3>1. Dequeue /\ HandOut(HeadCmd)
      BY <1>2, <2>3 DEF GetQueued
    <3>2. cmd_queue_length > 0
      BY <2>3, QueueAssumption DEF Ring
    <3>3. Cardinality(InRing)' = IF Real(HeadCmd)
                                 THEN Cardinality(InRing) - 1
                                 ELSE Cardinality(InRing)
      BY <3>1, <3>2, DequeueCounts
    <3>4. taken' = IF Real(HeadCmd) THEN taken + 1 ELSE taken
      BY <3>1 DEF HandOut, Real
    <3>5. /\ {issued, taken, refused} \subseteq Nat
          /\ issued = taken + refused + Cardinality(InRing)
          /\ Cardinality(InRing) \in Nat
      BY InRingFinite DEF Counted, NothingLost
    <3> QED  BY <2>1, <3>3, <3>4, <3>5 DEF Counted, NothingLost
  <2> QED  BY <2>2, <2>3
<1>3. CASE ReadKeyDown \/ NoKey
  <2>1. UNCHANGED <<ringVars, issued, taken, refused>>
    BY <1>3 DEF ReadKeyDown, NoKey, NotYet, histVars
  <2> QED  BY <2>1, CountAlone
<1>4. CASE ReadKeyUp \/ StartRepeat \/ Repeat \/ ReadCmds
  <2>1. \/ UNCHANGED <<ringVars, issued, taken, refused>>
        \/ \E what : Return(what)
    BY <1>4 DEF ReadKeyUp, StartRepeat, Repeat, ReadCmds, NotYet, histVars
  <2> QED  BY <2>1, CountAlone, ReturnKeepsCount
<1>5. CASE WindowKey
  BY <1>5, QueueKeepsCount DEF WindowKey
<1>6. CASE Main /\ ~GetCmd /\ ~WindowKey
  <2>1. UNCHANGED <<ringVars, issued, taken, refused>>
    BY <1>6, Zenon
    DEF Main, CheckInterrupt, Removed, WasInterrupted, NoMoreEvents,
        PausePeeked, Unpaused, HandleCmd, Handled, histVars
  <2> QED  BY <2>1, CountAlone
<1> QED
  BY <1>1, <1>2, <1>3, <1>4, <1>5, <1>6 DEF Next, Main, GetCmd

(* NothingLost (input.cpp:999): each command is handed out once, waits in  *)
(* the ring, or was refused by a full ring.                                *)
THEOREM InputNothingLost == Spec => []NothingLost
<1>1. Init => Counted
  <2> SUFFICES ASSUME Init PROVE Counted
    OBVIOUS
  <2>1. Waiting = {}
    BY DEF Init, Waiting
  <2>2. InRing = {}
    BY <2>1 DEF InRing
  <2>3. Cardinality(InRing) = 0
    BY <2>2, FS_EmptySet
  <2> QED  BY <2>3 DEF Init, Counted, NothingLost
<1>2. Inv /\ Counted /\ [Next]_vars => Counted'
  BY NextCount DEF Inv
<1>3. Counted => NothingLost
  BY DEF Counted
<1> QED  BY <1>1, <1>2, <1>3, InputInv, PTL DEF Spec

-----------------------------------------------------------------------------
(* The types.                                                              *)

RingType == cmd_queue \in [0 .. QueueSize - 1 -> Commands]
KeyType ==
    /\ key_down \in Seq(Keys) /\ Len(key_down) <= MaxKeyDown + 1
    /\ last_key_down \in BOOLEAN /\ ar_state \in -1 .. 1 /\ ar_cmd \in Texts
UserType ==
    /\ keys \in Seq([key : Keys, down : BOOLEAN])
    /\ files \in Seq(FileCommands)
MainType ==
    /\ {ret, seen} \subseteq Commands
    /\ osd_pause \in BOOLEAN /\ eof \in BOOLEAN
Types == RingType /\ KeyType /\ UserType /\ MainType

(* What a combination of keys means is a text.                             *)
LEMMA BindType ==
    ASSUME NEW combination
    PROVE  Bind(combination) \in Texts
  BY DEF Bind, Texts

(* A command that is made has its number and its text.                     *)
LEMMA CmdType ==
    ASSUME issued \in Nat, NEW what \in Texts
    PROVE  NewCmd(what) \in Commands /\ NoCmd \in Commands
  BY DEF NewCmd, NoCmd, Texts, Commands

(* The ring keeps its type,                                                *)
LEMMA QueueType ==
    ASSUME Ring, RingType, NEW c \in Commands, QueueCmd(c)
    PROVE  RingType'
<1>1. CASE Full
  BY <1>1 DEF QueueCmd, ringVars, RingType
<1>2. CASE ~Full
  BY <1>2, QueueAppends DEF RingType
<1> QED  BY <1>1, <1>2

(* a key that is released leaves a shorter sequence of keys,               *)
LEMMA WithoutType ==
    ASSUME key_down \in Seq(Keys), NEW k
    PROVE  Without(k) \in Seq(Keys) /\ Len(Without(k)) <= Len(key_down)
<1>1. CASE ~IsDown(k)
  BY <1>1 DEF Without
<1>2. CASE IsDown(k)
  <2>1. PICK j \in 1 .. Len(key_down) :
            Without(k) = RemoveAt(key_down, j)
    BY <1>2 DEF IsDown, Without
  <2>2. Without(k) = SubSeq(key_down, 1, j - 1)
                         \o SubSeq(key_down, j + 1, Len(key_down))
    BY <2>1 DEF RemoveAt
  <2>3. /\ SubSeq(key_down, 1, j - 1) \in Seq(Keys)
        /\ SubSeq(key_down, j + 1, Len(key_down)) \in Seq(Keys)
        /\ Len(SubSeq(key_down, 1, j - 1)) = j - 1
        /\ Len(SubSeq(key_down, j + 1, Len(key_down))) = Len(key_down) - j
    OBVIOUS
  <2>4. \A s, t \in Seq(Keys) :
            s \o t \in Seq(Keys) /\ Len(s \o t) = Len(s) + Len(t)
    OBVIOUS
  <2>5. /\ Without(k) \in Seq(Keys)
        /\ Len(Without(k)) = (j - 1) + (Len(key_down) - j)
    BY <2>2, <2>3, <2>4
  <2>6. Len(key_down) \in Nat
    OBVIOUS
  <2> QED  BY <2>5, <2>6
<1> QED  BY <1>1, <1>2

(* and reading a key keeps the types of the keys.                          *)
LEMMA KeyReadType ==
    ASSUME KeyType, UserType, ReadKeyDown \/ ReadKeyUp
    PROVE  KeyType' /\ UserType'
<1>0. /\ MaxKeyDown \in Nat \ {0} /\ Len(key_down) \in Nat
      /\ key_down \in Seq(Keys)
  BY QueueAssumption DEF KeyType
<1>1. /\ keys # <<>> /\ Head(keys) \in [key : Keys, down : BOOLEAN]
      /\ Tail(keys) \in Seq([key : Keys, down : BOOLEAN])
  <2> DEFINE T == [key : Keys, down : BOOLEAN]
  <2>1. keys # <<>> /\ keys \in Seq(T)
    BY DEF ReadKeyDown, ReadKeyUp, NextEvent, UserType
  <2> HIDE DEF T
  <2>2. Head(keys) \in T /\ Tail(keys) \in Seq(T)
    BY <2>1
  <2> QED  BY <2>1, <2>2 DEF T
<1>2. UserType'
  BY <1>1 DEF ReadKeyDown, ReadKeyUp, UserType
<1>3. CASE UNCHANGED keyVars
  BY <1>2, <1>3 DEF KeyType, keyVars
<1>4. CASE ReadKeyDown /\ ~UNCHANGED keyVars
  <2>1. Len(key_down) <= MaxKeyDown /\ Pressed(Head(keys).key)
    BY <1>0, <1>4 DEF ReadKeyDown
  <2>2. Head(keys).key \in Keys
    BY <1>1
  <2>3. /\ key_down' \in Seq(Keys) /\ Len(key_down') <= MaxKeyDown + 1
    BY <1>0, <2>1, <2>2 DEF Pressed
  <2> QED  BY <1>2, <2>1, <2>3 DEF Pressed, KeyType
<1>5. CASE ReadKeyUp /\ ~UNCHANGED keyVars
  <2>1. /\ \E k : key_down' = Without(k)
        /\ last_key_down' = FALSE /\ ar_state' = -1 /\ ar_cmd' = None
    BY <1>5 DEF ReadKeyUp
  <2>2. key_down' \in Seq(Keys) /\ Len(key_down') <= Len(key_down)
    BY <1>0, <2>1, WithoutType
  <2>3. Len(key_down') \in Nat /\ Len(key_down) <= MaxKeyDown + 1
    BY <2>2 DEF KeyType
  <2>4. Len(key_down') <= MaxKeyDown + 1
    BY <1>0, <2>2, <2>3
  <2>5. last_key_down' \in BOOLEAN /\ ar_state' \in -1 .. 1
    <3>1. -1 \in -1 .. 1
      OBVIOUS
    <3>2. ar_state' = -1
      BY <2>1
    <3>3. ar_state' \in -1 .. 1
      BY <3>1, <3>2, Zenon
    <3> QED  BY <2>1, <3>3, Zenon
  <2>6. ar_cmd' \in Texts
    BY <2>1 DEF Texts
  <2> QED  BY <1>2, <2>2, <2>4, <2>5, <2>6 DEF KeyType
<1> QED  BY <1>2, <1>3, <1>4, <1>5

(* What leaves everything but the user's buffers alone keeps the types.    *)
LEMMA TypesAlone ==
    ASSUME Types, UNCHANGED <<cmd_queue, keyVars, keys, files, ret, seen,
                              osd_pause, eof>>
    PROVE  Types'
  BY DEF Types, RingType, KeyType, UserType, MainType, keyVars

(* The user puts what he does into the buffers.                            *)
LEMMA UserKeepsType ==
    ASSUME Types, User
    PROVE  Types'
<1>1. UNCHANGED <<cmd_queue, keyVars, ret, seen, osd_pause, eof>>
  BY DEF User, ringVars, mainVars
<1>2. UserType'
  <2> DEFINE T == [key : Keys, down : BOOLEAN]
  <2>1. keys \in Seq(T) /\ files \in Seq(FileCommands)
    BY DEF Types, UserType
  <2>2. CASE PressKey
    <3>1. /\ \E e \in T : keys' = Append(keys, e)
          /\ files' = files
      BY <2>2 DEF PressKey
    <3> HIDE DEF T
    <3>2. keys' \in Seq(T)
      BY <2>1, <3>1
    <3> QED  BY <2>1, <3>1, <3>2 DEF UserType, T
  <2>3. CASE PressInWindow \/ WriteCommand
    <3>1. /\ keys' = keys
          /\ files' = files \/ \E c \in FileCommands : files' = Append(files, c)
      BY <2>3 DEF PressInWindow, WriteCommand
    <3>2. files' \in Seq(FileCommands)
      BY <2>1, <3>1
    <3> QED  BY <2>1, <3>1, <3>2 DEF UserType
  <2> QED  BY <2>2, <2>3 DEF User
<1> QED
  BY <1>1, <1>2 DEF Types, RingType, KeyType, MainType, keyVars

(* A command that is returned has its type.                                *)
LEMMA ReturnType ==
    ASSUME Ring, Types, issued \in Nat, NEW what \in Texts, Return(what),
           UNCHANGED mainVars
    PROVE  RingType' /\ MainType'
<1>1. NewCmd(what) \in Commands
  BY CmdType
<1>2. RingType'
  <2>1. QueueCmd(NewCmd(what)) \/ UNCHANGED ringVars
    BY DEF Return
  <2> QED  BY <1>1, <2>1, QueueType DEF Types, RingType, ringVars
<1>3. MainType'
  BY <1>1 DEF Return, Types, MainType, mainVars
<1> QED  BY <1>2, <1>3

(* Every step of mp_input_get_cmd keeps the types.                         *)
LEMMA GetCmdType ==
    ASSUME Ring, Types, issued \in Nat, GetCmd
    PROVE  Types'
<1>1. CASE GetQueued
  <2>1. HeadCmd \in Commands
    BY DEF Ring, Types, RingType, HeadCmd
  <2>2. /\ UNCHANGED <<cmd_queue, keyVars, keys, files, seen, osd_pause, eof>>
        /\ ret' \in {ret, HeadCmd}
    BY <1>1 DEF GetQueued, ringVars, userVars, mainVars, Dequeue
  <2>3. MainType'
    BY <2>1, <2>2 DEF Types, MainType
  <2> QED
    BY <2>2, <2>3 DEF Types, RingType, KeyType, UserType, keyVars
<1>2. CASE ReadKeyDown \/ ReadKeyUp
  <2>1. KeyType' /\ UserType'
    BY <1>2, KeyReadType DEF Types
  <2>2. UNCHANGED mainVars
    BY <1>2 DEF ReadKeyDown, ReadKeyUp
  <2>3. NotYet("keys") \/ \E what \in Texts : Return(what)
    <3>1. \A k : Released(k) \in Texts
      BY BindType DEF Released, Texts
    <3> QED  BY <1>2, <3>1 DEF ReadKeyDown, ReadKeyUp
  <2>4. RingType' /\ MainType'
    <3>1. ASSUME NotYet("keys") PROVE RingType' /\ MainType'
      BY <2>2, <3>1 DEF NotYet, Types, RingType, MainType, ringVars, mainVars
    <3> QED  BY <2>2, <2>3, <3>1, ReturnType
  <2> QED  BY <2>1, <2>4 DEF Types
<1>3. CASE StartRepeat \/ Repeat \/ NoKey
  <2>1. UNCHANGED <<key_down, last_key_down, keys, files, mainVars>>
    BY <1>3 DEF StartRepeat, Repeat, NoKey, keyVars, userVars
  <2>2. ar_cmd' \in Texts /\ ar_state' \in -1 .. 1
    BY <1>3, BindType
    DEF StartRepeat, Repeat, NoKey, keyVars, Types, KeyType
  <2>3. KeyType' /\ UserType'
    BY <2>1, <2>2 DEF Types, KeyType, UserType
  <2>4. NotYet("files") \/ \E what \in Texts : Return(what)
    BY <1>3, BindType DEF StartRepeat, Repeat, NoKey, Types, KeyType
  <2>5. RingType' /\ MainType'
    <3>1. ASSUME NotYet("files") PROVE RingType' /\ MainType'
      BY <2>1, <3>1 DEF NotYet, Types, RingType, MainType, ringVars, mainVars
    <3> QED  BY <2>1, <2>4, <3>1, ReturnType
  <2> QED  BY <2>3, <2>5 DEF Types
<1>4. CASE ReadCmds
  <2>1. /\ UNCHANGED <<keyVars, keys, mainVars>>
        /\ files \in Seq(FileCommands) /\ None \in Texts
        /\ FileCommands \subseteq Texts
    BY <1>4 DEF ReadCmds, Types, UserType, Texts
  <2>2. CASE files = <<>>
    <3>1. Return(None) /\ files' = files
      BY <1>4, <2>2 DEF ReadCmds
    <3>2. RingType' /\ MainType'
      BY <2>1, <3>1, ReturnType
    <3> QED  BY <2>1, <3>1, <3>2 DEF Types, KeyType, UserType, keyVars
  <2>3. CASE files # <<>>
    <3>1. Return(Head(files)) /\ files' = Tail(files)
      BY <1>4, <2>3 DEF ReadCmds
    <3>2. Head(files) \in FileCommands /\ Tail(files) \in Seq(FileCommands)
      BY <2>1, <2>3
    <3>3. RingType' /\ MainType'
      BY <2>1, <3>1, <3>2, ReturnType
    <3> QED  BY <2>1, <3>1, <3>2, <3>3 DEF Types, KeyType, UserType, keyVars
  <2> QED  BY <2>2, <2>3
<1> QED  BY <1>1, <1>2, <1>3, <1>4 DEF GetCmd

(* Every step of main keeps the types.                                     *)
LEMMA MainKeepsType ==
    ASSUME Ring, Types, issued \in Nat, Main
    PROVE  Types'
<1>1. CASE GetCmd
  BY <1>1, GetCmdType
<1>2. CASE WindowKey
  <2>1. \E what \in Texts : QueueCmd(NewCmd(what))
    BY <1>2, BindType DEF WindowKey
  <2>2. RingType'
    BY <2>1, QueueType, CmdType DEF Types
  <2>3. UNCHANGED <<keyVars, keys, files, ret, seen, osd_pause, eof>>
    BY <1>2 DEF WindowKey, mainVars, OthersOfMain
  <2> QED
    BY <2>2, <2>3 DEF Types, KeyType, UserType, MainType, keyVars
<1>3. CASE ~GetCmd /\ ~WindowKey
  <2>1. UNCHANGED <<cmd_queue, keyVars, keys, files, ret>>
    BY <1>3, Zenon
    DEF Main, CheckInterrupt, Removed, WasInterrupted, NoMoreEvents,
        PausePeeked, Unpaused, HandleCmd, Handled, OthersOfMain, ringVars
  <2>2. MainType'
    <3>1. seen' \in {seen, ret}
      BY <1>3
      DEF Main, CheckInterrupt, Removed, WasInterrupted, NoMoreEvents,
          PausePeeked, Unpaused, HandleCmd, Handled
    <3>2. osd_pause' \in BOOLEAN
      BY <1>3
      DEF Main, CheckInterrupt, Removed, WasInterrupted, NoMoreEvents,
          PausePeeked, Unpaused, HandleCmd, Handled, Types, MainType
    <3>3. eof' \in BOOLEAN
      BY <1>3
      DEF Main, CheckInterrupt, Removed, WasInterrupted, NoMoreEvents,
          PausePeeked, Unpaused, HandleCmd, Handled, Types, MainType
    <3> QED  BY <2>1, <3>1, <3>2, <3>3 DEF Types, MainType
  <2> QED  BY <2>1, <2>2 DEF Types, RingType, KeyType, UserType, keyVars
<1> QED  BY <1>1, <1>2, <1>3

(* Every variable has its type (input.cpp:68-100): the ring and the keys   *)
(* stay in their arrays.                                                   *)
THEOREM InputTypeOK == Spec => []TypeOK
<1>1. Init => Types
  <2> SUFFICES ASSUME Init PROVE Types
    OBVIOUS
  <2>1. RingType /\ MainType
    <3>1. NoCmd \in Commands
      BY CmdType DEF Init, Texts
    <3> QED  BY <3>1 DEF Init, RingType, MainType
  <2>2. KeyType
    <3>1. 0 <= MaxKeyDown + 1 /\ -1 \in -1 .. 1 /\ None \in Texts
      BY QueueAssumption DEF Texts
    <3>2. key_down = <<>> /\ Len(key_down) = 0
      BY DEF Init
    <3>3. ar_state \in -1 .. 1 /\ last_key_down \in BOOLEAN
      BY <3>1, Zenon DEF Init
    <3>4. Len(key_down) <= MaxKeyDown + 1
      BY <3>1, <3>2
    <3>5. ar_cmd \in Texts
      BY <3>1 DEF Init
    <3> QED  BY <3>2, <3>3, <3>4, <3>5 DEF KeyType
  <2>3. UserType
    BY DEF Init, UserType
  <2> QED  BY <2>1, <2>2, <2>3 DEF Types
<1>2. Inv /\ Numbered /\ Types /\ [Next]_vars => Types'
  <2> SUFFICES ASSUME Inv, Numbered, Types, [Next]_vars PROVE Types'
    OBVIOUS
  <2>1. CASE UNCHANGED vars
    BY <2>1, TypesAlone DEF vars, ringVars, userVars, mainVars
  <2>2. CASE Next
    BY <2>2, UserKeepsType, MainKeepsType DEF Next, Inv, Numbered
  <2> QED  BY <2>1, <2>2
<1>3. Inv /\ Numbered /\ Types => TypeOK
  <2> SUFFICES ASSUME Inv, Numbered, Types PROVE TypeOK
    OBVIOUS
  <2>1. cmd_queue_end \in 0 .. QueueSize - 1
    <3>1. cmd_queue_start + cmd_queue_length
              \in 0 .. QueueSize + QueueSize - 1
      BY QueueAssumption DEF Inv, Ring
    <3> QED  BY <3>1, RoundIs DEF Inv, Ring
  <2>2. {issued, served} \subseteq Nat
    BY DEF Numbered
  <2> QED
    BY <2>1, <2>2
    DEF Inv, Ring, Types, RingType, KeyType, UserType, MainType, TypeOK
<1> QED  BY <1>1, <1>2, <1>3, InputInv, InputNumbered, PTL DEF Spec
=============================================================================
