----------------------------- MODULE InputQueue -----------------------------
(***************************************************************************)
(* How commands reach main (input2/input.cpp): the ring of commands, the   *)
(* keys that are down and their repetition, and main, which peeks at and   *)
(* takes commands while it opens a stream, plays and pauses (main.cpp).    *)
(*                                                                         *)
(* All of it runs in main.  The user acts at any time: what he does waits  *)
(* in the buffers of the terminal, the window and the command files until  *)
(* mp_input_get_cmd or check_events reads it.                              *)
(*                                                                         *)
(* A command is its number, in the order in which commands are made, and   *)
(* what it says.  Whether a time has passed is a choice.  Command filters  *)
(* and mp_input_key_cb belong to the menu, which is not modelled.          *)
(***************************************************************************)
EXTENDS Integers, Sequences, FiniteSets, SequencesExt

CONSTANTS
    QueueSize,      \* CMD_QUEUE_SIZE
    MaxKeyDown,     \* MP_MAX_KEY_DOWN
    Keys,           \* key codes of terminal and joystick
    WindowKeys,     \* key codes of the window
    NoRepeatKeys,   \* those with MP_NO_REPEAT_KEY
    Binds,          \* what each bound combination of keys means
    FileCommands,   \* what may come from a command file
    MaxEvents,      \* bound on what the user does
    MaxRepeats      \* bound on repetitions of a held key

ASSUME QueueAssumption ==
    QueueSize \in Nat \ {0} /\ MaxKeyDown \in Nat \ {0}

VARIABLES
    cmd_queue, cmd_queue_start, cmd_queue_end, cmd_queue_length,
    key_down, last_key_down,    \* keys down, and whether one was just pressed
    ar_state, ar_cmd,           \* repetition of the keys that are down
    window, keys, files,        \* what the user did and nobody has read
    events, repeats,            \* how much of it so far
    mpc, gpc,                   \* place in main and in mp_input_get_cmd
    ret, seen,                  \* its result, and the one of the last peek
    osd_pause, eof,             \* osd_function = OSD_PAUSE, eof
    issued, taken, refused,     \* history: commands made, handed out, lost
    served,                     \* history: number of the last one handed out
    passed                      \* history: a NULL was found at the head

ringVars == <<cmd_queue, cmd_queue_start, cmd_queue_end, cmd_queue_length>>
keyVars == <<key_down, last_key_down, ar_state, ar_cmd>>
userVars == <<window, keys, files, events>>
mainVars == <<mpc, seen, osd_pause, eof>>
histVars == <<issued, taken, refused, served, passed>>
vars == <<ringVars, keyVars, userVars, repeats, mainVars, gpc, ret, histVars>>

None == "none"
NoCmd == [id |-> 0, what |-> None]      \* NULL
Bind(combination) ==
    IF combination \in DOMAIN Binds THEN Binds[combination] ELSE None
\* A mutant: quit is forgotten.
Interrupting_NoQuit == {"step"}
Interrupting == {"quit", "step"}        \* the cases of check_interrupt

Init ==
    /\ cmd_queue = [i \in 0 .. QueueSize - 1 |-> NoCmd]
    /\ cmd_queue_start = 0 /\ cmd_queue_end = 0 /\ cmd_queue_length = 0
    /\ key_down = <<>> /\ last_key_down = FALSE
    /\ ar_state = -1 /\ ar_cmd = None
    /\ window = <<>> /\ keys = <<>> /\ files = <<>>
    /\ events = 0 /\ repeats = 0
    /\ mpc = "connect" /\ gpc = "queue" /\ ret = NoCmd /\ seen = NoCmd
    /\ osd_pause = FALSE /\ eof = FALSE
    /\ issued = 0 /\ taken = 0 /\ refused = 0 /\ served = 0
    /\ passed = FALSE

-----------------------------------------------------------------------------
(* The user.  Terminals report a key once, when it is released.            *)

UserDid == events < MaxEvents /\ events' = events + 1

PressKey ==
    /\ UserDid
    /\ \E k \in Keys, down \in BOOLEAN :
           keys' = Append(keys, [key |-> k, down |-> down])
    /\ UNCHANGED <<window, files>>

PressInWindow ==
    /\ UserDid
    /\ \E k \in WindowKeys : window' = Append(window, k)
    /\ UNCHANGED <<keys, files>>

WriteCommand ==
    /\ UserDid
    /\ \E c \in FileCommands : files' = Append(files, c)
    /\ UNCHANGED <<window, keys>>

User ==
    /\ PressKey \/ PressInWindow \/ WriteCommand
    /\ UNCHANGED <<ringVars, keyVars, repeats, mainVars, gpc, ret, histVars>>

-----------------------------------------------------------------------------
(* The ring.                                                               *)

NewCmd(what) ==
    IF what = None THEN NoCmd ELSE [id |-> issued + 1, what |-> what]
Issue(what) == issued' = IF what = None THEN issued ELSE issued + 1

\* A mutant: one more than there is room for.
Full_OffByOne == cmd_queue_length > QueueSize
Full == cmd_queue_length >= QueueSize

\* mp_input_queue_cmd: a full ring refuses.
QueueCmd(c) ==
    IF Full
    THEN /\ UNCHANGED ringVars
         /\ refused' = IF c = NoCmd THEN refused ELSE refused + 1
    ELSE /\ cmd_queue' = [cmd_queue EXCEPT ![cmd_queue_end] = c]
         /\ cmd_queue_end' = (cmd_queue_end + 1) % QueueSize
         /\ cmd_queue_length' = cmd_queue_length + 1
         /\ UNCHANGED <<cmd_queue_start, refused>>

\* A mutant: the start stays where it is.
Dequeue_Stay ==
    /\ cmd_queue_length' = cmd_queue_length - 1
    /\ UNCHANGED <<cmd_queue, cmd_queue_start, cmd_queue_end>>
Dequeue ==
    /\ cmd_queue_length' = cmd_queue_length - 1
    /\ cmd_queue_start' = (cmd_queue_start + 1) % QueueSize
    /\ UNCHANGED <<cmd_queue, cmd_queue_end>>

HeadCmd == cmd_queue[cmd_queue_start]

HandOut(c) ==
    IF c = NoCmd THEN UNCHANGED <<taken, served>>
    ELSE taken' = taken + 1 /\ served' = c.id

\* Main peeks where it only wants to know whether it has to stop waiting.
\* A mutant: commands are taken while a stream is opened.
Peek_Paused == mpc = "paused"
Peek == mpc \in {"connect", "paused"}

-----------------------------------------------------------------------------
(* mp_input_get_cmd.                                                       *)

\* mp_input_get_queued_cmd: take or look at the head.  A NULL at the head
\* counts as nothing, whether it stays there or not.
GetQueued ==
    /\ gpc = "queue"
    /\ IF cmd_queue_length = 0
       THEN gpc' = "keys" /\ UNCHANGED <<ringVars, ret, taken, served>>
       ELSE /\ IF HeadCmd = NoCmd THEN gpc' = "keys" /\ UNCHANGED ret
               ELSE gpc' = "done" /\ ret' = HeadCmd
            /\ IF Peek THEN UNCHANGED <<ringVars, taken, served>>
               ELSE Dequeue /\ HandOut(HeadCmd)
    /\ passed' = (passed \/ (cmd_queue_length > 0 /\ HeadCmd = NoCmd))
    /\ UNCHANGED <<keyVars, userVars, repeats, mainVars, issued, refused>>

\* A mutant: what a peek reads is forgotten.
Return_Forget(what) ==
    /\ gpc' = "done" /\ ret' = NewCmd(what)
    /\ Issue(what)
    /\ UNCHANGED <<ringVars, refused, passed>>
    /\ IF Peek THEN UNCHANGED <<taken, served>> ELSE HandOut(NewCmd(what))

\* A command that does not come from the ring is put there by a peek.
Return(what) ==
    /\ gpc' = "done" /\ ret' = NewCmd(what)
    /\ Issue(what) /\ UNCHANGED passed
    /\ IF Peek /\ what # None
       THEN QueueCmd(NewCmd(what)) /\ UNCHANGED <<taken, served>>
       ELSE UNCHANGED <<ringVars, refused>> /\ HandOut(NewCmd(what))

NotYet(to) == gpc' = to /\ UNCHANGED <<ringVars, ret, histVars>>

IsDown(k) == \E j \in 1 .. Len(key_down) : key_down[j] = k

\* mp_input_read_keys: the next event of the terminal or the joystick.
NextEvent(down) == gpc = "keys" /\ keys # <<>> /\ Head(keys).down = down

\* A mutant: the repetition goes on.
Pressed_GoOn(k) ==
    /\ key_down' = Append(key_down, k)
    /\ last_key_down' = TRUE /\ UNCHANGED ar_cmd
    /\ ar_state' = IF ar_state = 1 THEN 1 ELSE 0
Pressed(k) ==
    /\ key_down' = Append(key_down, k)
    /\ last_key_down' = TRUE /\ ar_state' = 0 /\ UNCHANGED ar_cmd

ReadKeyDown ==
    /\ NextEvent(TRUE)
    /\ IF Len(key_down) > MaxKeyDown \/ IsDown(Head(keys).key)
       THEN UNCHANGED keyVars
       ELSE Pressed(Head(keys).key)
    /\ NotYet("keys")
    /\ keys' = Tail(keys)
    /\ UNCHANGED <<window, files, events, repeats, mainVars>>

\* The combination of a key that is released: a key that was never pressed
\* is added to it, one of the last combination makes none.
Combination(k) == IF IsDown(k) THEN key_down ELSE Append(key_down, k)
Released(k) ==
    IF last_key_down \/ ~IsDown(k) THEN Bind(Combination(k)) ELSE None

Without(k) ==
    IF ~IsDown(k) THEN key_down
    ELSE RemoveAt(key_down, CHOOSE j \in 1 .. Len(key_down) : key_down[j] = k)

ReadKeyUp ==
    /\ NextEvent(FALSE)
    /\ LET k == Head(keys).key
       IN  IF ~IsDown(k) /\ Len(key_down) > MaxKeyDown
           THEN NotYet("keys") /\ UNCHANGED keyVars
           ELSE /\ key_down' = Without(k)
                /\ last_key_down' = FALSE
                /\ ar_state' = -1 /\ ar_cmd' = None
                /\ IF Released(k) = None THEN NotYet("keys")
                   ELSE Return(Released(k))
    /\ keys' = Tail(keys)
    /\ UNCHANGED <<window, files, events, repeats, mainVars>>

Repeatable ==
    ar_state >= 0 /\ key_down # <<>> /\ Last(key_down) \notin NoRepeatKeys

\* No key waits: repeat the one that is held, if the time has come.
StartRepeat ==
    /\ gpc = "keys" /\ keys = <<>> /\ Repeatable /\ ar_state = 0
    /\ repeats < MaxRepeats
    /\ ar_cmd' = Bind(key_down)
    /\ IF Bind(key_down) = None
       THEN ar_state' = -1 /\ NotYet("files") /\ UNCHANGED repeats
       ELSE ar_state' = 1 /\ Return(Bind(key_down)) /\ repeats' = repeats + 1
    /\ UNCHANGED <<key_down, last_key_down, userVars, mainVars>>

Repeat ==
    /\ gpc = "keys" /\ keys = <<>> /\ Repeatable /\ ar_state = 1
    /\ repeats < MaxRepeats /\ repeats' = repeats + 1
    /\ Return(ar_cmd)
    /\ UNCHANGED <<keyVars, userVars, mainVars>>

NoKey ==
    /\ gpc = "keys" /\ keys = <<>>
    /\ NotYet("files")
    /\ UNCHANGED <<keyVars, userVars, repeats, mainVars>>

\* mp_input_read_cmds, and the end of mp_input_get_cmd without a command
ReadCmds ==
    /\ gpc = "files"
    /\ IF files = <<>> THEN Return(None) /\ UNCHANGED files
       ELSE Return(Head(files)) /\ files' = Tail(files)
    /\ UNCHANGED <<keyVars, window, keys, events, repeats, mainVars>>

GetCmd ==
    \/ GetQueued \/ ReadKeyDown \/ ReadKeyUp \/ StartRepeat \/ Repeat
    \/ NoKey \/ ReadCmds

-----------------------------------------------------------------------------
(* Main.  Call(m): mp_input_get_cmd is called at place m, which takes or   *)
(* peeks at the next command; Got(m): it has returned.                     *)

Call(m) == mpc' = m /\ gpc' = "queue"
Jump(m) == mpc' = m /\ gpc' = "idle"
Got(m) == mpc = m /\ gpc = "done"
OthersOfMain == UNCHANGED <<keyVars, keys, files, events, repeats, ret>>

\* mp_input_check_interrupt while the stream is opened: a command that ends
\* the wait stays in the ring, others are removed.
CheckInterrupt ==
    /\ Got("connect")
    /\ \/ ret = NoCmd /\ (Call("connect") \/ Jump("events"))
       \/ ret.what \in Interrupting /\ Call("interrupted")
       \/ ret # NoCmd /\ ret.what \notin Interrupting /\ Call("remove")
    /\ seen' = ret
    /\ UNCHANGED <<ringVars, window, osd_pause, eof, histVars>>
    /\ OthersOfMain

Removed ==
    /\ Got("remove")
    /\ Call("connect") \/ Jump("events")
    /\ UNCHANGED <<ringVars, window, seen, osd_pause, eof, histVars>>
    /\ OthersOfMain

\* libmpdemux_was_interrupted; then the next file, if there is one.
WasInterrupted ==
    /\ Got("interrupted")
    /\ Jump("stop") \/ (ret.what # "quit" /\ Call("connect"))
    /\ UNCHANGED <<ringVars, window, seen, osd_pause, eof, histVars>>
    /\ OthersOfMain

\* check_events, mplayer_put_key: the command of a key of the window, NULL
\* if it has none, goes to the end of the ring.
WindowKey ==
    LET what == Bind(<<Head(window)>>)
    IN  /\ mpc = "events" /\ window # <<>>
        /\ window' = Tail(window)
        /\ QueueCmd(NewCmd(what)) /\ Issue(what)
        /\ UNCHANGED <<mainVars, gpc, taken, served, passed>>
        /\ OthersOfMain

\* paint_osd waits while the player is paused.
NoMoreEvents ==
    /\ mpc = "events" /\ window = <<>>
    /\ Call(IF osd_pause THEN "paused" ELSE "input")
    /\ UNCHANGED <<ringVars, window, seen, osd_pause, eof, histVars>>
    /\ OthersOfMain

\* Any command ends the pause; if it is pause, it is removed.
PausePeeked ==
    /\ Got("paused")
    /\ \/ ret = NoCmd /\ Jump("events") /\ UNCHANGED osd_pause
       \/ ret.what = "pause" /\ Call("unpause") /\ UNCHANGED osd_pause
       \/ /\ ret.what \notin {None, "pause"}
          /\ Call("input") /\ osd_pause' = FALSE
    /\ seen' = ret
    /\ UNCHANGED <<ringVars, window, eof, histVars>>
    /\ OthersOfMain

Unpaused ==
    /\ Got("unpause")
    /\ osd_pause' = FALSE
    /\ Call("input")
    /\ UNCHANGED <<ringVars, window, seen, eof, histVars>>
    /\ OthersOfMain

\* handle_input: execute commands until there is none.
HandleCmd ==
    /\ Got("input") /\ ret # NoCmd
    /\ IF ret.what = "quit" THEN Jump("stop") ELSE Call("input")
    /\ osd_pause' = (osd_pause \/ ret.what = "pause")
    /\ eof' \in IF ret.what = "step" THEN {eof, TRUE} ELSE {eof}
    /\ UNCHANGED <<ringVars, window, seen, histVars>>
    /\ OthersOfMain

Handled ==
    /\ Got("input") /\ ret = NoCmd
    /\ eof' = FALSE
    /\ IF eof THEN Call("connect") \/ Jump("stop") ELSE Jump("events")
    /\ UNCHANGED <<ringVars, window, seen, osd_pause, histVars>>
    /\ OthersOfMain

Main ==
    \/ CheckInterrupt \/ Removed \/ WasInterrupted \/ WindowKey
    \/ NoMoreEvents \/ PausePeeked \/ Unpaused \/ HandleCmd \/ Handled
    \/ GetCmd

Next == User \/ Main
Spec == Init /\ [][Next]_vars /\ WF_vars(Main)

-----------------------------------------------------------------------------

Texts == {None} \cup FileCommands \cup {Binds[c] : c \in DOMAIN Binds}
Commands == [id : Nat, what : Texts]

\* Every variable has its type: the ring and the keys stay in their arrays.
TypeOK ==
    /\ cmd_queue \in [0 .. QueueSize - 1 -> Commands]
    /\ {cmd_queue_start, cmd_queue_end} \subseteq 0 .. QueueSize - 1
    /\ cmd_queue_length \in 0 .. QueueSize
    /\ key_down \in Seq(Keys) /\ Len(key_down) <= MaxKeyDown + 1
    /\ last_key_down \in BOOLEAN /\ ar_state \in -1 .. 1 /\ ar_cmd \in Texts
    /\ keys \in Seq([key : Keys, down : BOOLEAN])
    /\ files \in Seq(FileCommands)
    /\ {ret, seen} \subseteq Commands /\ {issued, served} \subseteq Nat
    /\ osd_pause \in BOOLEAN /\ eof \in BOOLEAN

Place(k) == (cmd_queue_start + k) % QueueSize
Waiting == 0 .. cmd_queue_length - 1
Queued(k) == cmd_queue[Place(k)]
Real(c) == c # NoCmd

\* The ring (input.cpp:955-975) is a queue: from its start to its end it holds
\* commands in the order in which they were made, all made after the last one
\* handed out, however window keys, held keys and peeks put them there; only a
\* NULL at the head lets a key overtake the commands behind it.
QueueInOrder ==
    /\ cmd_queue_end = Place(cmd_queue_length)
    /\ \A k \in Waiting : Real(Queued(k)) =>
           /\ ~passed => Queued(k).id > served
           /\ \A j \in 0 .. k - 1 :
                  Real(Queued(j)) => Queued(j).id < Queued(k).id

\* Each command is handed out once, waits in the ring, or was refused by a
\* full ring: peeking (input.cpp:999) loses and doubles none.
InRing == {i \in {Place(k) : k \in Waiting} : Real(cmd_queue[i])}
NothingLost == issued = taken + refused + Cardinality(InRing)

\* "The cmd will be executed when we are back in the main loop", "remove the
\* cmd from the queue" (input.cpp:1423-1426), and the same for the pause in
\* main.cpp:1222: the command taken is the one seen by the peek before it,
\* whatever the user did in between, a NULL at the head again excepted.
TakesWhatItSaw ==
    gpc = "done" /\ mpc \in {"remove", "interrupted", "unpause"} /\ ~passed
        => ret = seen

\* While a command repeats it is the command of the keys that are down, all of
\* them, and not that of an earlier combination (input.cpp:897-913).
RepeatsWhatIsHeld == ar_state = 1 => ar_cmd # None /\ ar_cmd = Bind(key_down)

\* A quit that reached the ring ends the program, also while it is paused or
\* opens a stream, unless a NULL is before it: main.cpp:740 queues one for a
\* window key without a command, and every peek stops there.
QuitIsNext ==
    \E k \in Waiting :
        Queued(k).what = "quit" /\ \A j \in 0 .. k : Real(Queued(j))
QuitStops == QuitIsNext ~> (mpc = "stop")
=============================================================================
