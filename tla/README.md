# A verification project for MPlayerXP

MPlayerXP is a fork of MPlayer whose threads decode ahead of what they play.
This directory holds TLA+ modules that model the core of the player, the TLC
configurations that check them on small instances, and theorems about them
that TLAPS proves for every instance.  All paths are relative to the
repository; most of the code is under `src/mplayerxp`.

## 1. The system

MPlayerXP plays a file with up to five threads: the main thread, an audio
decoder, a video decoder (which may decode audio as well), an audio player and
a video player.  `xmpcore` creates them and holds what they share.

### Video decoding ahead (`xmpcore/xmp_core.cpp`, `xmp_vdecoder.cpp`, `xmp_vplayer.cpp`)

State: a `dec_ahead_engine_t` with `num_v_buffs` slots (one per surface of the
video output), `decoder_idx` (the slot being decoded), `player_idx` (the slot
on the screen), and a flag `eof`.  Each slot carries the pts of its frame, with
HUGE for the end of the stream, and the duration of the frame.

Operations: the decoder reads a packet, decodes it into the surface of
`decoder_idx`, sets the attributes of the slot and the duration of the one
before, and moves on with `dae_inc_decoded`, waiting while the ring is full.
The player tests with `dae_try_inc_played` that there is a new frame, sleeps
until it is due, switches the screen to it and moves on with `dae_inc_played`.
No lock protects any of this: the two indices are the whole protocol.

Hard: every interleaving of the tests and stores of the two threads; one `eof`
flag written by both; threads that leave their routine at the end of the
stream while main still talks to them; a seek that resets both indices.

Correct when: the decoder never draws into the slot on the screen; the player
never shows a slot that was not decoded; frames are shown in stream order,
none twice and none skipped up to the last one shown; the duration of a slot is right when it is slept on.

### The thread engine (`xmpcore/xmp_core.cpp`)

State: `mpxp_threads[MAX_MPXP_THREADS]`, `num_threads`, and per thread a
`state` out of Pth_Stand, Pth_Canceling, Pth_Run, Pth_Sleep, Pth_ASleep.
Operations: `xmp_register_thread`, `xmp_run_decoders`, `xmp_run_players`,
`xmp_halt_threads`, `xmp_restart_threads`, `xmp_stop_threads`.  Main writes a
request into `state` and spins until the thread overwrites it.

Hard: main spins on threads that have already left, or that wait for one that
main has halted before; records are freed while threads may still use them; a
second file is played with the table of the first.

### Audio decoding ahead (`xmpcore/xmp_adecoder.cpp`, `xmp_aplayer.cpp`)

State: a byte ring `audio_buffer` with `head`, `tail`, the wrap position `len`,
`size`, a reserve `min_reserv`, `eof`, `HasReset`, two mutexes (one per end) and
a condition variable.  Operations: `read_audio_buffer`, `decode_audio_buffer`,
`get_free_audio_buffer`, `reset_audio_buffer`, `uninit_audio_buffer`.

Hard: each end is protected by a mutex of its own, so the reader sees every
intermediate value of `head` and `len`; the signal is sent without the mutex of
the waiter; a waiting reader and a halted decoder.

### Main loop (`main.cpp`)

Starts the engine for each file, polls the input, seeks, pauses, notices the end
of the stream, and stops the engine.

### Demuxing (`libmpdemux`)

`demuxer_r.cpp` serialises the access of the threads to one demuxer with a
mutex; `demuxer_stream.cpp` keeps a queue of packets per elementary stream.

### RTP streams (`libmpstream2/rtp_cache.cpp`)

State: a ring of `MAXRTPPACKETSIN` slots, each with the contents, the length and
the sequence number of a packet, and `rtp_first`, the slot whose number is the
one expected next.  Operations: `cache` takes a packet off the socket and gives
it, drops it, stores it or starts all over; `get_next` calls it until the next
packet is there or enough reads were in vain, and then skips what is missing.

Hard: packets come late, twice or never; sequence numbers wrap at 16 bits and
are compared as ints; the server may begin anew; slots are used again.

Correct when: packets are given in the order of sending and none twice; without
faults none is left out (both as long as no packet is misjudged, section 3); a
slot holds what is due when its turn comes.

### Input (`input2/input.cpp`, `main.cpp`)

State: a ring of `CMD_QUEUE_SIZE` commands, the keys that are down, and which
command repeats.  Operations: `mp_input_queue_cmd`, `mp_input_get_cmd` (take or
peek; it looks into the ring, at the keys and at the command files, in this
order), `mp_input_check_interrupt`, and `check_events` of main, which puts the
commands of window keys into the ring.

Hard: a peek at a key or a file puts the command into the ring and the caller
takes it later, while the user goes on; a full ring; combinations of keys and
their repetition; one function that main calls for three different purposes.

Correct when: commands keep their order, none is lost or doubled, main takes
what it saw, and a quit ends the program wherever main is.

### Sound output and pause (`xmpcore/xmp_aplayer.cpp`, `libao3/ao_jack.cpp`, `main.cpp`)

State: the fifo of the JACK output (`wndx`, `rndx`, `wptr`, `rptr`), `paused`,
`underrun`; `in_pause` and `dec_ahead_can_aseek` of the engine.  Operations:
`audio_play_routine` and `play`, which fill the fifo; `outputaudio`, which the
JACK server calls in a thread of its own; main's pause, resume, seek and stop.

Hard: no lock on the fifo; a pause that waits until the player is at a safe
place; a reset while the callback may run.

Correct when: each unit is heard once and in order; the fifo is never
over-full; a pause does not hang and a resume wakes the player; a stop does not
hang once the decoder has left, unless the player waits for sound from it.

### Stream cache (`libmpstream2/cache2.cpp`)

A thread that reads ahead of the demuxer into a ring of packets.

### Playlists (`libplaytree2`)

State: a tree of entries, an iterator with a stack, and the copy of it that main
makes for a trial step.  Operations: `step`, `up_step`, `down_step`,
`get_file`, and the insertion and removal of a playlist file in the tree.

Hard: three functions that call each other, with a direction and loop counts on
a stack; a tree that changes under the iterator.

### The rest

Other outputs (`libao3`, `libvo2`), filters (`postproc`), subtitles
(`libmpsub`), other streams (`libmpstream2`), format drivers (`libmpdemux`),
codecs (`libmpcodecs`, `lavc`), configuration and translation: I/O, formats and
sample or pixel arithmetic, called by the core from one place each.

### How the parts interact

| from | to | by |
| --- | --- | --- |
| main | threads | `mpxp_thread_t.state`, written by both sides and polled |
| video decoder | video player | `decoder_idx`, `player_idx`, slots, `eof` of one `dec_ahead_engine_t` |
| audio decoder | audio player | `audio_buffer`: `head`, `len` / `tail`, `eof`, condition variable |
| audio player | JACK's callback | the fifo and `underrun`; no lock |
| main | audio player | `in_pause`, `dec_ahead_can_aseek`, `audio_play_cond` |
| network | RTP stream | packets, read by `get_next` |
| user | main | keys, window and command files, read by `mp_input_get_cmd` and `check_events` |
| decoders, main | demuxer | `demuxer_mutex` around calls of `demuxer_r.cpp` |
| main | playlist | `PlayTree_Iter`, moved between two files and, as a copy, on a key |

## 2. The plan

Modules, in the order in which they were or will be written:

1. `DaeRing`, `FrameQueue`, `VideoAhead` - the two video threads, the ring and
   main around them; `FrameQueue` is the abstract specification.
   `VideoAheadProofs` proves the safety properties, `VideoAheadRefines` that
   the ring implements the queue.  **Done.**
2. `AudioAhead` - the audio threads and the byte ring.  `AudioAheadProofs`:
   `SeekExclusive`; `TypeOK` and `HeardInOrder` for frames of one length.
   **Done.**
3. `DemuxStreams` - packet queues and the demuxer lock.  `DemuxStreamsProofs`:
   all its invariants.  **Done.**
4. `PlayTree` - the playlist iterator.  `PlayTreeProofs`: types, `StackIsPath`,
   and `ShuffledOnce` for lists of files.  **Done.**
5. `RtpCache` - reordering of RTP packets, with a faulty network.
   `RtpCacheProofs`: types, `SlotsHoldTheirs`, `CalmIsComplete`, and `InOrder`
   for a server that keeps its numbers, each with its exemption.  **Done.**
6. `InputQueue` - commands from the user to main.  `InputQueueProofs`: all its
   safety properties.  **Done.**
7. `AudioOutput` - the audio player, the fifo, the callback, pause, seek and
   stop.  `AudioOutputProofs`: all its safety properties.  **Done.**
8. To come: laps of different length in `AudioAhead`; `XmpThreads`, the thread
   table over several files (`num_threads` is never reset), composing the start,
   halt, restart and stop of four threads; `reorder_pts_in_mpeg` and the
   estimated pts (`bad_pts`); `free_packs_until_pts` and track switching in
   `DemuxStreams`.

`AudioAhead` and `AudioOutput` are the two halves of the audio player: in the
first it reads the byte ring and its output is a sink, in the second it fills
the output and its input gives any amount.  They meet in `read_audio_buffer`,
whose results `AudioOutput` overestimates.  Of the decoder it keeps what a
player that waits in there depends on: that only a decoder in its loop feeds it,
and that main halts or cancels the decoder first.  Composed they would have too
many states to check.

Abstract specifications worth stating: the frame queue (done); a byte stream
with a bounded buffer, which `AudioAhead` should implement (now stated as
`HeardInOrder`); a FIFO of packets per stream, which `DemuxStreams` should
implement (now `QueueIsPending`).

Invariants no theorem states for all that the runs try: `InOrder` of `PlayTree`,
and `InOrder` of `RtpCache` when the server starts anew (section 6 says why).

## 3. Modules and code

One step of a module is at most one access to a variable that another thread
writes without holding a lock the reader holds too.  Program counters (`dpc`,
`ppc`, `mpc`, `pc`) name the point of the routine that comes next.  Definitions
called `X_Something` that a comment calls a mutant are faulty versions of `X`
and no part of the model: replacing `X` by one makes the property it is there
for fail.

### DaeRing, FrameQueue, VideoAhead

`DaeRing` is the index arithmetic of `xmp_core.cpp:115-156`.  `UIntRange` stands
for the range of an unsigned; the subtraction in `dae_prev_decoded` goes through
it.  In `VideoAhead`:

| in the module | in the code |
| --- | --- |
| `decoder_idx`, `player_idx`, `frame`, `eof` | `dec_ahead_engine_t` |
| `state` | `mpxp_thread_t.state` of both threads |
| `dpc`, `pos`, `enc` | decoder: place in `xmp_video_decoder`, position of the demuxer, packet in hand |
| `ppc`, `shva_prev`, `can_blit`, `screen` | player: place in `xmp_video_player` and `mpxp_play_video`, its locals, surface given to `select_frame` |
| `mpc`, `mi` | main: place in `MPlayerXP`, `i` of the loops over threads |

A frame is its number in the stream, which is also its pts.  The pts is trusted
(`bad_pts` 0), there is no reordering, no `-play.frames`, and the numbers of
frame dropping, quality and A-V correction are left out: their only effect on
the modelled state is that a packet may give no picture (`blit_frame` 0) and
that the player may give up waiting (`vplayer_do_sleep` returns 0), and both are
choices here.  `dae_inc_decoded` and `dae_inc_played` are a test and a store.
`PlaySpec` plays until the end or until the user quits; `SeekSpec` adds seeks.

`FrameQueue` promises frames in stream order, none twice and none skipped up to
the last one shown.  The refinement maps its `onScreen` to what the slot
`screen`, the one given to `select_frame`, holds (`OnScreen`), and its queue to
the published slots behind that one.  `ended` is `AtEnd`: the decoder has left
and its slot carries the mark HUGE.  From then on the player's `eof` forces the
switch whatever the indices say (`xmp_vplayer.cpp:161`, `PlayerForce`), and the
slot selected may be the marked one, with the picture an earlier lap has left in
its surface: `ShowLeftover`, allowed only with no frame waiting.  The queue does
not promise that waiting frames are shown: the code drops frames decoded ahead
at the end (section 7).

### AudioAhead

`head`, `tail`, `len`, `buf_eof`, `HasReset` are those of `audio_buffer`; `cell`
holds, for each unit of the ring, the number of the unit of sound in it.
`audio_eof` is `xp_core->audio->eof`, `ds_eof` that of the demuxer stream.  A
unit stands for as many bytes as the smallest amounts in play have in common, so
`Size`, `MinSize` (`audio_out_minsize`), `FrameSize` (what the filters make of
as much), `Reserv` (`MIN_BUFFER_RESERV`), `Outburst` (`MAX_OUTBURST`) are small
numbers; `SizesAssumption` is the relation `xmp_init_engine` gives them.
`Chunks` is what one call of the decoder may give.  `head_mutex` is taken only
by the decoder and by main while the decoder sleeps, so it is not a variable;
`tail_mutex` is, with the wait on `wait_buffer_cond` that gives it up.  Pause is in
`AudioOutput`; the pts indices, the sound card's clock and the combined decoder
and player thread (`XMP_Run_AudioPlayback`) are left out.

### DemuxStreams

The file is a sequence of packets; demuxing once appends the next to the queue
of its stream.  `first`, `last`, `next`, `packs`, `bytes`, `current`, `pos`,
`size`, `pts_bytes`, `eof` are the members of `Demuxer_Stream`; `taken`, `start`
and `since` are history (the last packet taken, where the last seek led to, the
bytes read since a pts).  `mutex` is `demuxer_mutex`; the reader that holds it
takes the steps of `fill_buffer`, `read_data`, `getch`, `get_packet`.

### PlayTree

A node of the tree is a number, its siblings a sequence (`child`, `next`,
`prev`), `files` its number of alternatives, `loops` its loop count.
`Iters` are main's iterator and the copy main makes on a key; `at`, `loop`,
`stack`, `mode`, `file` are `tree`, `loop`, `status_stack`, `mode`, `file` of a
`PlayTree_Iter`.  `step`, `up_step`, `down_step` call each other as the last
thing they do, so `pc` is the one called next.  `place`, `aim` and `heard` are
history for the properties.  Left out: parameters of entries, looping of
the root (its loop count is 0), groups without files, `with_nodes` (main always
passes 0).

### RtpCache

| in the module | in the code |
| --- | --- |
| `rtp_first`, `rtp_seq`, `is_first` | the same; `is_first` is static, so that a second stream starts with it FALSE |
| `rtp_pkt` | `rtp_data` and `rtp_len`: the number of the packet in the slot, 0 for none |
| `tries` | `i` of the loop in `get_next` |
| `wire`, `sent`, `base`, `faults` | the network (external): packets on their way, packets sent, where their numbers start |
| `given`, `astray` | history: what was given; a packet was misjudged |

A packet is its number in the order of sending; its sequence number is that plus
`base`, modulo `SeqRange`.  `InSequence`, `Overrun`, `Underrun`, `DropOld`,
`OutOfSequence` and `Damaged` are the ways through `cache`, `TakeNext` the end of
`get_next`.  `Misjudged` marks the packets for which the code's arithmetic
differs from the true distance: over the wrap (`rtp_cache.cpp:90`), and exactly
`MAXRTPPACKETSIN` ahead (line 100).  It takes no fault: two packets that
overtake each other where the numbers wrap (0 before 65535) are misjudged, the
cache is reset, and packets it held are lost or come out of order.  After a
misjudged packet `SlotsHoldTheirs` and `InOrder` say nothing.  `CalmIsComplete`
says nothing then only if the numbers wrap or start below `MaxPackets`: with
`NoWrap` it is unconditional.  Section 7 shows what happens after.

### InputQueue

| in the module | in the code |
| --- | --- |
| `cmd_queue`, `cmd_queue_start`, `_end`, `_length` | the ring |
| `key_down`, `last_key_down` | keys down; whether the last one was pressed or released |
| `ar_state`, `ar_cmd` | repetition |
| `window`, `keys`, `files` | what the user did and nobody has read |
| `mpc`, `gpc`, `ret`, `seen` | place in main and in `mp_input_get_cmd`, its result, that of the last peek |
| `issued`, `taken`, `refused`, `served`, `passed` | history |

A command is the number of its making and what it says, and `NoCmd` is NULL.
Whether a time (`ar_delay`, `ar_rate`) has passed is a choice.  `Interrupting`
are the commands of which `mp_input_check_interrupt` gives TRUE.  Command filters
and `mp_input_key_cb` belong to the menu and are left out.  `passed` notes that
`mp_input_get_cmd` found a NULL in the ring and went on to the keys: the order
and the peeks are only promised without that (section 7).

### AudioOutput

| in the module | in the code |
| --- | --- |
| `wndx`, `rndx`, `wptr`, `rptr`, `cell` | `AVFifoBuffer` (`libavutil/fifo.c`) |
| `paused`, `underrun` | `Jack_AO_Interface` |
| `in_pause`, `can_aseek` | `xp_core->in_pause`, `dec_ahead_can_aseek` |
| `state` | the player's `mpxp_thread_t.state` |
| `audio_eof`, `a_len`, `src` | `xp_core->audio->eof`, `a_buffer_len`, units decoded so far |
| `decoding` | the audio decoder is in its loop, neither asleep nor gone |
| `ppc`, `cpc`, `mpc` | places of player, callback and main |
| `frames`, `left`, `short` | `nframes` and the locals of `outputaudio` |
| `heard`, `torn` | history: last unit given to JACK; a reset met a callback |

`av_fifo_generic_write` and `_read` copy first and move counters and pointers
after; player and callback take one step for each.  `reset` sets `paused`, which
keeps new callbacks out, and clears the fifo in three steps; one that has
already tested `paused` goes on (`ao_jack.cpp:310`).  `torn` notes it, the model
ends there, since what is read then has no defined order, and the properties
hold up to that point.

Assumed: the stores of one thread to the fifo are seen by the other in program
order.  `fifo.c:111`, `125` and `134` say "memory barrier needed for SMP here in
theory", and there are none; what a compiler or hardware that exchanges the
stores (x86 does not) would make of the fifo is not modelled.

A player that finds the byte ring empty waits in `pthread_cond_wait`
(`PlayerStarve`, `xmp_adecoder.cpp:154`) until the decoder has brought sound or
reported the end (`DecoderFeeds`).  Main asks the decoder to sleep or leave
before it asks the player (`MainHaltDecoder`, then `MainHalt`), and a decoder
that does so wakes nobody (`DecoderStops`; `uninit_audio_buffer`'s broadcast
comes after the stop).  A player caught in that wait is `Abandoned`: main spins
for it without end, at a seek and at a stop.  `StopEnds` leaves out exactly this
case.

## 4. The runs

Twelve runs; "violation" runs check one statement of a document or comment that
the code does not keep.

| run | specification, bounds | properties |
| --- | --- | --- |
| `video_play` | `PlaySpec`, 4 slots, 6 frames, unsigned of 16 | `TypeOK`, `NoTearing`, `OnlyDecodedShown`, `DurationsSettled`, `StoppedThreadsGone`, `PlaysInOrder`, `DecoderFinishes`, `AcksCancel` |
| `video_seek` | `SeekSpec`, 3 slots, 3 frames | `SeekExclusive`, `AcksSleep` |
| `audio_play` | `PlaySpec`, ring of 12, 18 units | `TypeOK`, `HeardInOrder`, `EndWakesReader` |
| `audio_seek` | `SeekSpec`, ring of 5, 3 units | `SeekExclusive` |
| `audio_halt_hangs` | `SeekSpec`, ring of 12, 6 units | `PlayerAcksSleep` violated |
| `demux_seek` | `Spec`, 8 packets, queues of 3 bytes | `TypeOK`, `QueueIsPending`, `TellPts`, `QueuesBounded` |
| `demux_lock` | `ReadSpec`, 8 packets | `CallsGetIn` violated |
| `playtree_play` | `PlaySpec`, six playlists of up to 8 nodes | `TypeOK`, `StackIsPath`, `InOrder`, `ShuffledOnce`, `StepReturns` |
| `playtree_keys` | `KeySpec`, the same | `KeysGoOn` violated |
| `rtp_stream` | 8 slots, 9 packets, up to 3 apart on their way, 3 faults, numbers up to 99 | `TypeOK`, `SlotsHoldTheirs`, `InOrder`, `CalmIsComplete` |
| `input_play` | ring of 2, 2 keys, 3 window keys, 4 acts of the user, 2 repetitions | `TypeOK`, `QueueInOrder`, `NothingLost`, `TakesWhatItSaw`, `RepeatsWhatIsHeld`, `QuitStops` |
| `output_play` | fifo of 4, counters up to 5, bursts of 3, 7 units, 1 seek, callbacks of 2 frames, with pictures | `TypeOK`, `FifoSound`, `HeardInOrder`, `ResetAlone`, `PauseHolds`, `StopEnds`, `ResumeWakes` |

Why the bounds are enough.

* Video: the threads only compare the two indices and their successors.  With 4
  slots the ring can be empty for the player, hold one or two waiting frames, or
  be full; 6 frames take both indices once round it, so that slots are used
  again.  16 stands for 2^32 because 4 divides both.  The theorems of section 6
  hold for every ring and file.  With seeks 3 slots and 3 frames reach
  every pair of places the two threads can be at when main halts them; a seek
  can lead anywhere in the file, its end included, any number of times.
* Audio: 12 units with a reserve of 3 (one frame of 2, and 1) leave room for a
  lap of five frames; 18 units of sound are more than one lap and wrap both
  ends.  The reader asks for 1 to 3 or for 3 to 5 units, so reads end before,
  at and behind the wrap.  With seeks the control matters and not the contents,
  hence the smallest ring the assumption allows.
* Demuxing: 8 packets of both streams interleaved, one of each stream empty and
  three without pts; a limit of 3 bytes, which the fuller queue exceeds.
* Playlists: one tree for each thing the iterator does: nested groups at the
  first and last place of a group, groups repeated twice and three times inside
  each other, a group without end, a playlist file inside a list, an entry with
  three alternatives, and a list in random order.
* RTP: 8 slots give `get_next` five reads before it skips, more than the three
  packets that can be on their way; 9 packets go once round the slots.  Streams
  start at 0; at 20, from where no number wraps; and at 93, seven before the wrap
  at 100; a server that starts anew
  jumps by 30 (an overrun) or 70 (an underrun over the wrap).  3 faults allow a
  loss, a repetition and a restart in one behaviour.
* Input: a ring of 2 is full after one window key and one peek; 4 acts press and
  release two keys, one inside the other, or fill the ring and quit.
* Output: a fifo of 4 with bursts of 3 and reads of 2 wraps in every position;
  counters up to 5 wrap at another place than the pointers, as 2^32 does with a
  fifo whose size does not divide it; 7 units are nearly two rounds.

`CHECK_DEADLOCK FALSE` in every configuration: the program ends, and the code
can also hang, which liveness properties say more precisely than a deadlock.

What the passing runs show: the unlocked video ring never lets the decoder draw
into the picture being shown nor, before the end of the stream, the player show
one that is not decoded, and plays the frames in order, none twice or skipped up
to the last one shown; a full ring drains and a thread in its
loop answers a cancel or a sleep, also while it waits for room; the byte ring
of the sound gives what was decoded in order over wraps, and its decoder never
fills it up to the tail; the packet queues and their counters stay consistent
under two readers, look-ahead and seeks; the recursive playlist iterator
returns, keeps its stack and plays the files in the order the tree says; the RTP
cache gives packets in order over losses, repetitions and restarts until it
misjudges one, which at the wrap of the numbers it may do without a fault, and
away from the wrap it gives all of them when there are no faults; the input ring loses, doubles and reorders no command
and main takes what it peeked at, also when keys arrive in between; and the
unlocked fifo gives the sound card each unit once and in order until a reset
meets a callback past its test, if its stores are seen in program order, while a
pause comes to its end and so does a stop, except from a player abandoned in its
wait for sound.

## 5. Fairness

* Threads (`WF` on each thread's steps): they are ordinary POSIX threads, and
  every busy wait of the code calls `yield_timeslice`, so each is scheduled
  again and again.
* `SF` on `PlayerWaited`: `vplayer_do_sleep` returns 0 while the sound card is
  too far behind and is called again; sound that plays shortens the wait.
* `SF` on `Lock(s)` in `DemuxStreams`: the strongest a mutex can promise, so a
  violation does not come from an unfair mutex.
* The user (seek, quit, keys) and the next call of a reader in `DemuxStreams`
  are under no obligation.
* `WF` on `Iterate` in `PlayTree`: a function that has been called goes on.
* `WF` on `Main` in `InputQueue`: main never waits there, it polls.  The user
  may stop acting.
* `WF` on player, callback and main in `AudioOutput`: two threads of the
  program, and the JACK server, which calls back as long as the client is
  active.  Nothing is asked of the decoder there: it may never feed a waiting player, and
  main may wait for it for ever.  Pressing pause, resume, seek and quit is under
  no obligation; a pause may last for ever.
* None in `RtpCache`: the network promises nothing, and no property needs it.

A condition variable wakes its waiter only by a signal or a broadcast here;
spurious wake-ups are left out, because no property may rely on them.

## 6. The proofs

For every value of the constants that satisfies the assumptions:

| theorem | module | says |
| --- | --- | --- |
| `PlayTypeOK` | `VideoAheadProofs` | the indices stay in the ring |
| `PlayNoTearing` | | the decoder never works in the slot on the screen |
| `PlayOnlyDecodedShown` | | the player switches to published slots only or, forced at the end of the stream, to the one marked as the end |
| `PlayStoppedThreadsGone` | | the record of a thread is freed after its last access |
| `PlayRefines` | `VideoAheadRefines` | `PlaySpec` implements `FrameQueue`: what `select_frame` is given is in order, none twice or skipped up to the last frame shown; after the end at most the marked slot follows |
| `OutputTypeOK` | `AudioOutputProofs` | counters and pointers keep their ranges |
| `OutputResetAlone` | | main clears the fifo while the player sleeps or is gone |
| `OutputFifoSound` | | the fifo is never over-full, counters and pointers agree, with the same exception |
| `OutputHeardInOrder` | | each unit is heard once and in order, unless a reset met a callback past its test; stores seen in program order |
| `SeekTypeOK`, `SeekSeekExclusive` | `VideoAheadProofs` | with seeks: types, and main resets the ring while both threads sleep or are gone |
| `PlayDurationsSettled` | `VideoAheadRefines` | the player's frame has the duration up to the next one, if `NFrames` divides `UIntRange` |
| `SeekSeekExclusive` | `AudioAheadProofs` | main resets the byte ring while both threads sleep or are gone |
| `PlayTypeOK` | | no byte outside of the byte ring is written or read, if all frames have one length |
| `PlayHeardInOrder` | | what is read is the decoded sound, each unit once and in order, if all frames have one length |
| `DemuxTypeOK` | `DemuxStreamsProofs` | no count of packets or bytes falls below 0 |
| `DemuxQueueIsPending` | | a queue is the packets read and not yet taken, its counters their number and bytes |
| `DemuxTellPts` | | `pts_bytes` is what was read since the last pts |
| `DemuxQueuesBounded` | | a queue outgrows `MAX_PACK_BYTES` by less than a packet |
| `RtpTypeOK` | `RtpCacheProofs` | slots and sequence numbers keep their ranges |
| `RtpSlotsHoldTheirs` | | a slot holds the packet that is due there, or none, until a packet is misjudged |
| `RtpInOrder` | | packets are given in the order of sending and none twice, until a packet is misjudged (over the wrap of the numbers, overtaking suffices), if the server keeps its numbers and the faults are few |
| `RtpCalmIsComplete` | | without faults every packet from the first one on is given, if none overtakes too many: always where the numbers do not wrap, over the wrap until a packet is misjudged |
| `PlayTypeOK` | `PlayTreeProofs` | the iterator stays in the tree, and what `up_step` takes from the stack is a loop count |
| `PlayStackIsPath` | | the stack holds one status for each group above the iterator, also while a playlist file is replaced |
| `PlayShuffledOnce` | | in random order no file is played twice and none is left out, if the playlist is a list of files with one source each |
| `InputTypeOK` | `InputQueueProofs` | the ring stays in its array, and no more keys are down than the array has places, and one |
| `InputQueueInOrder` | | the ring holds the commands in the order of their making |
| `InputNothingLost` | | each command was taken, waits or was refused |
| `InputTakesWhatItSaw` | | main takes the command it peeked at |
| `InputRepeatsWhatIsHeld` | | a held key repeats the command of the keys down |

**VideoAhead.**  Assumptions: `NFramesAssumption` (at least 3 slots, which
`MPXPSystem::run_ahead_engine` enforces), `UIntAssumption` (the ring is smaller
than the range of an unsigned) and `FileFramesAssumption`.

The inductive invariant `IInv` is `TypeOK /\ ThreadInv /\ RingInv`.  None of the
properties is inductive alone.  `NoTearing` needs to know that a thread between
its test and its store (`publish`, `advance`) still has the room it found: the
other thread can only have made more of it, since only the decoder moves
`decoder_idx` and only the player `player_idx`; that is `RingInv`.  At the end
of the stream the player switches pictures whatever the indices say
(`PlayerForce`).  It can only come to the decoder's slot when the decoder has
left and marked it (`eof => AtEnd`), which holds because the player starts
after main has seen the decoder run and the ring half full: the store of
`DecoderClearEof` is then long past.  `RingInv` also says where `screen` is: at
`player_idx`, or one further between the switch and the store and, at the end,
for good on the marked slot.  Who is where while main starts and stops
the threads is `ThreadInv`.

The refinement adds `DataInv`: between the two indices the slots hold frames in
stream order, older than the frame in the decoder's hand.  A publishing step
appends to the queue, `select_frame` takes its head (`SelectShows`) or, when it
is empty at the end, goes over to the marked slot; the player's store that
follows only renames the slots (`AdvanceUnseen`); the mark of the decoder that
leaves is `Finish` (`DecoderEnds`); all other steps stutter.  The lemmas
`OutrunPublish`, `OutrunAdvance`, `OutrunOfOne`, `RingPublished`, `RingAdvanced`
carry the arithmetic of the ring, `WhatIsShown` and `QueueKept` that of the
mapping.

`RingInv` and what rests on it are proved under `PlaySpec` only: after a seek
both indices are 0, which the player takes for a ring one frame ahead, and
`OnlyDecodedShown` does not hold (section 7).  What the ring holds then does
not matter for `SeekExclusive`: `HaltInv` says where each thread is for each
place of main and state of the thread, in particular that who was seen asleep
or at the stand (`Quiet`) stays there until main wakes it.  It is inductive
under `SeekSpec` together with the types.

`PlayDurationsSettled` has the hypothesis `UIntRange % NFrames = 0`.  The range
is 2^32 and the default of 2^n slots divides it; a number that does not is a
fault of the code (`xmp_core.cpp:148`, section 7).

**AudioAhead.** Assumption: `SizesAssumption`.  `PlaceInv` says that
`tail_mutex` is held exactly while the player is in a place that needs it
(`Locked`), `HaltInv` is as in `VideoAhead`.  Together they are inductive under
`SeekSpec` and imply `SeekExclusive`.

`PlayTypeOK` and `PlayHeardInOrder` have the hypothesis `OneLength`: all frames
have one length, `Frame`, that `audio_out_minsize` is no less than, and if it is
just as much, the reserve at the ring's end is no more than two of them.  Most
codecs' frames have one length, and the code's reserve is `audio_out_minsize`
and 8 bytes (`MIN_BUFFER_RESERV`).  Neither half can be dropped: TLC finds
`HeardInOrder` violated with frames of 1 and 2, and with `FrameSize = MinSize =
2` and a reserve of 4.  With one length all laps end at the same byte,
`LapEnd`, unless the stream ends before.  So `len`, which both threads use for
the end of the lap, is never raised while the reader is still in the lap before
(`LapInv`).  `RoomInv` says that the room the decoder found is still there when
it decodes, through all its tests at the ring's end, and that the last byte
before the reader's is never taken: the full ring would be taken for an empty
one.  `ReadInv` says the same of what the player is about to copy.  `DataInv`
gives each byte from the reader's to the decoder's place its unit, and
`HeardInv` joins the units copied in this call to those before.

**DemuxStreams.** Assumption: `FileAssumption` (the file is a sequence of
packets of the two streams).  The four invariants are inductive together with
`PlaceInv`: a packet taken lies before the file's position, and a reader that
fills has read its packet to the end.  A queue is a linked list (`first`,
`next`, `last`); `Listed` says that it links the packets behind the one taken
in the order of the file, so that `QueueIsPending` is about sets and not about
paths.  Its byte count is a sum over a set: `BytesAdd` and `BytesDrop` rest on
the fold's recursion equation, whose function is shown to exist by the least
set element for which it would not (`WFMin`, `NatLessThanWellFounded`).

**AudioOutput.**  Assumptions: `FifoAssumption` (the counters' range is larger
than the fifo) and `SoundAssumption` (the player's buffer takes a burst); and,
not a formula but how the model is built, that the stores of the fifo are seen
in program order (section 3).  The invariant is `TypeOK`, `ThreadInv` (where the player is for each thing main
waits for) and, unless `torn`, four parts.  `ResetInv`: a reset that has met no
callback keeps them out.  `RoomInv`: the room the player found and the sound the
callback found are still there when they are used; each side only makes more of
what the other needs, which is why no lock is needed.  `CountInv`: the
pointers' distance is that of the counters, modulo the memory.  `DataInv`: the
units in the fifo follow the last one heard, and the decoder's next one follows
them.  `Size` is a difference modulo the range of an unsigned and the cells are
addressed modulo the size of the memory; the lemmas `Distance`, `CountUp`,
`CountDown`, `Place`, `FifoFill` and `FifoRest` turn both into case
distinctions, since the provers do not know remainders.

**RtpCache.**  Assumptions: `SlotsAssumption` (more than 3 slots; the code has
32), `SeqAssumption` (more than six times as many sequence numbers as slots; a
packet is far behind or ahead, not both) and `NetworkAssumption`.  The
invariant says of the slots, seen from `rtp_first`, that the one k places on is
empty or holds the number k after the expected one (`Holds`), and that before
the first packet all are empty.  `MovedHolds` carries it over a step of
`rtp_first`, `JudgedRight` says that a packet that was not misjudged is as far
ahead as `newseq` says, so that it goes into its own slot.

`RtpCalmIsComplete` has the hypothesis `Overtaking`: `2 * Window < MaxPackets -
1`; with the code's 32 slots, packets overtake others less than 15 places away.
TLC finds the property violated with 8 slots and `Window = 4`, so the bound
cannot be raised.  What it limits is the loop of `get_next`, which gives up
after `MAXRTPPACKETSIN - 3` reads without the packet it waits for: `CalmInv`
has two phases.  Before the first packet is given (`Start`) the cache waits for
number 0; afterwards (`Running`) for the one that is due (`Due`), every later
packet that is not on its way is in its slot, and all packets `get_next` may
have read meanwhile are fewer than `Window` places from the due or the first
one (`Tried`), at most `2 * (Window - 1)` of them.  So it never gives up, and
never steps over a packet that is still on its way.  All this is under
`Calm`, faults 0 and `~astray \/ NoWrap`.  Where numbers neither wrap nor start
below `MaxPackets` they are as far apart as they look (`UnwrappedNumbers`), and
the first packet, whichever it is, is an overrun of a cache that expects number
0 and is given at once (`StartUnslotted`).  So the theorem has no exception
there, and over the wrap it ends with the first packet misjudged.

`RtpInOrder` has the hypothesis `FewFaults`: the server does not start anew
(`Jumps = {}`), and the faults are so few that `get_next` is never more than
`3 * MaxPackets - Window` places ahead of the stream, or half the sequence
numbers behind it.  With the code's 32 slots and packets that overtake others
less than 16 places away this allows 2303 faults; the order of what overtakes
what, and which packets are lost, repeated or damaged, is free; but `InOrder`
ends where a packet is misjudged, and packets that overtake each other over the
wrap are (`rtp_cache.cpp:90`).  In `OrderInv`
nothing but damaged packets has come (`Untouched`), or `get_next` waits for a
packet `m` (`Awaits`), which need not exist yet: each slot is empty or holds
the packet that comes as many places after `m` in the stream as the slot after
`rtp_first`, and what was given ascends and ends before `m`.  That the numbers
of two packets tell which is the older one needs the distance from `m` to the
packets on the wire, in both directions.  The cache cannot be far behind,
because each packet it lacks was a fault (`FewMissing`, `NotFarBehind`): a cache
more than a ring behind lacks all packets in between.  It cannot be far ahead,
because each number it gives up takes `MAXRTPPACKETSIN - 3` reads, each of them
of a repeated packet or of one of those last sent (`NotFarAhead`): once nothing
new is sent ahead of it, the reads are paid for by faults.  TLC checked
`OrderInv` first, with the constants of `rtp_stream` but no jumps and 4 faults.

**PlayTree.**  Assumptions: `TreesAssumption` and `ShapeAssumption`: what is
read is a tree.  The code only makes such: `main.cpp:1504` and
`parse_playtree` start from fresh nodes, `set_child` and the functions that
append give a node its one parent and place, and `add_file` is called on new
entries, which have no children.  That children have greater numbers than their
parents is a way to number the nodes.  `Depth` is a recursive function; that
it has a value is shown from below, node by node (`LeastNumber`: what holds of
no node has no smallest counterexample).  The lemmas come in two layers, since
the lists of children change while main replaces a playlist file: `ParentIn`,
`PlaceIn`, `DepthIn` and the rest say of any lists `k` what the operators of the
model say of `kids`; `ForestInsert` and `ForestRemove` say what a change of one
list does to the parents of all nodes, and `SameDepth` that a node stays as
deep while its ancestors keep their parents.

`StackIsPath` alone is not inductive.  `TreeInv`: the lists are a forest, a
file has no children, and the trees in playlist files that were not read yet
are in none of the lists, so that an insertion gives no node a second parent.
`PathInv`: the iterator's ancestors lead up to the root, and its stack is as
long as it is deep.  `MarkInv`: in random order the entry main holds is marked.
`EntryInv` speaks of the moment between the insertion and the removal: the
iterator goes on from the playlist file to the node inserted behind it, or
further down there, and never back to the file, since it steps on (`d = 1`) or
its mark keeps it out of the random choice.  So when the file is taken out of
the tree the iterator does not stand on it, and no depth on its path changes.

`PlayTypeOK` adds `Types` to `IInv`.  What it needs beyond the types themselves
is that the numbers on the stack are loop counts (`Counts`), for `up_step` makes
the top one the iterator's, and that a node other than the root has a parent
(`UpperIs`), for `up_step` goes there.  `Aim` chooses a place of the tree's order
and is -1 if there is none; `InOrder` requires that it never is.

`PlayShuffledOnce` has the hypothesis `FlatShuffles`: a playlist in random order
is a list of files with one source each, and the keys step forward or back.
None of this can be dropped: a group is never marked and chosen again (section
7), another source of a file plays the file again, a step up ends the list.
`ShuffleInv` says that the marks are the files played and the one chosen to be
next, for each place between the choice and the playing.  The iterator gets
into the list because the root is valid only if its first file is; for this
`ValidIs` shows that `Valid`, a recursive function, has the value its equation
says, as the least set of nodes closed under it (`Filled`).

**InputQueue.**  Assumption: `QueueAssumption` (the ring and `key_down` have
room).  The invariant: `Ring` (the end is the start plus the length),
`Places` (main polls the window only outside `mp_input_get_cmd`), `Scanned`
(keys and files are read when the ring is empty), `Peeked` (what a peek returned
is at the head), `Taking` (between the peek and the taking it stays there).
`Scanned` is why a command read from a key may be handed out past the ring, and
why a peek that queues it makes it the head; it is also where a NULL breaks the
order, so all but `Ring` and `Places` are under `~passed`.  `Numbered` adds the
order of the numbers, `Counted` the sum over the ring as a cardinality.

`IInv`, `DataInv` and the invariants of the other modules were checked with TLC
first.

Only model-checked:

* All liveness (TLAPS has no rules for it here).
* `InOrder` of `PlayTree`: the order of the files in a tree is a recursive
  function of it, `FlattenSeq` of what is below each node, and what it yields is
  an induction over data.
* `TypeOK`, `HeardInOrder` of `AudioAhead` with frames of several lengths, with
  which they are not true (section 7).
* `InOrder` of `RtpCache` when the server starts anew, as it may in
  `rtp_stream`: it is not true of every server, since one that starts with
  numbers near the old ones has old packets taken for new ones (section 7).
  The code relies on starting numbers being random, which the run's jumps of 30
  and 70 places, far from the ring, stand for.

## 7. Where code and documents disagree

Shown by runs:

* `audio_halt_hangs`: `xmp_adecoder.cpp:153` "Safe to seek while we wait for
  data"; the decoder is halted first and nobody wakes the waiting player.
* `demux_lock`: `video_read_frame_r` returns with the lock held at the end of the
  stream (`demuxer_r.cpp:111`).
* `playtree_keys`: the iterator's copy constructor leaves its stack out
  (`playtree.cpp:358`), and the next key pops it.

Met while modelling, found with these modules and a formula or instance that no
run keeps:

| where | what | how to see it |
| --- | --- | --- |
| `xmp_vdecoder.cpp:173` | `README:73` says "you will watch every frame"; the flag set here ends the player's loop and the frames decoded ahead are not shown | `VideoAhead` with the player's last frame as the goal of a liveness property |
| `xmp_core.cpp:348` | `DOCS/mplayerxp.1:1882` says "stop playing and quit program immediately"; main waits for a thread that has left at the end of the stream | `VideoAhead`: `mpc = "stop" ~> mpc = "done"` |
| `xmp_core.cpp:341` | `num_threads` is never reset, so that a second file finds the table half used | reading |
| `demuxer_stream.cpp:147` | `eof` is "true if all buffer empty" (`demuxer_stream.h:39`), but the other stream's full queue sets it | `DemuxStreams`: `eof` of a stream implies that no packet of it is left |
| `rtp_cache.cpp:100` | a packet exactly `MAXRTPPACKETSIN` ahead is not an overrun and goes into the expected one's slot: the next is given after it | `rtp_stream` without the last disjunct of `Misjudged`: `given = <<8, 1>>` |
| `rtp_cache.cpp:90` | the 16 bit numbers are subtracted as ints: over the wrap packets that are near look far away, the cache is reset and what it held is lost or given late; two packets that overtake each other suffice, without a fault | `rtp_stream` with `Misjudged` FALSE: `InOrder` and `CalmIsComplete`, both also with `MaxFaults = 0`: `given = <<1, 2, 3, 4, 5, 8, 6>>` |
| `rtp_cache.cpp:92` | a server that starts anew with numbers near the old ones: packets kept from before are given among the new ones | `RtpCache` with `SeqRange = 100`, `Bases = {0, 20}`, `Jumps = {98}`, `Window = 3`, `MaxFaults = 1`: `given = <<2, 1>>`, `InOrder` |
| `main.cpp:740` | a window key without a command queues NULL, at which every peek stops: a quit behind it (`DOCS/mplayerxp.1:1877`) does not end a pause or the opening of a stream, and later keys overtake it | `input_play` without `Real(Queued(j))` in `QuitIsNext`, or without `~passed` |
| `input.cpp:850` | the test lets `MP_MAX_KEY_DOWN + 1` keys into an array of `MP_MAX_KEY_DOWN` | `InputQueue` with `MaxKeyDown = 1`: `Len(key_down) <= MaxKeyDown` |
| `xmp_adecoder.cpp:154` | a quit cancels the audio decoder before the player (`xmp_core.cpp:348`); a player that waits for sound then is never woken and main never gets its answer, while `DOCS/mplayerxp.1:1882` says "stop playing and quit program immediately" | `output_play`: `StopEnds` without `Abandoned` |
| `fifo.c:111`, `125`, `134` | the comments there say that memory barriers are needed for SMP, and there are none | reading; the order of the stores is assumed |
| `xmp_vplayer.cpp:161` | at the end of the stream `eof` forces a switch to the slot behind the last published one, which holds no frame | `video_play`: `ppc # "none" => screen # decoder_idx` |
| `ao_jack.cpp:310` | a reset empties the fifo under a callback that has already passed the test of `paused` | `output_play`: `~torn` |
| `ao_jack.cpp:203` | the callback sets `underrun` after the player has filled the fifo again; without pictures the player then spins on a full fifo and a pause hangs | `output_play` with `HasVideo = FALSE`: `PauseHolds` |
| `xmp_aplayer.cpp:178` | `dec_ahead_can_aseek` is still set when the player has passed its wait, so main pauses the output while the player writes to it | `output_play`: `mpc = "paused" => ppc = "waiting"` |
| `xmp_aplayer.cpp:245` | `decore_audio` returns an `eof` it never sets, so the wait at the end of the stream is never entered | reading |
| `xmp_core.cpp:148` | with a number of slots that does not divide 2^32, slot 0 has no right predecessor and durations are lost | `video_play` with `NFrames = 3`: `DurationsSettled` |
| `xmp_vplayer.cpp:151` | the slot is copied before the ring is tested, so the player may sleep on a duration that was not yet set | compare `shva_prev` with the slot at `ppc = "wait"` |
| `xmp_core.cpp:97` | after a seek both indices are 0: the player takes the slot behind for decoded | `OnlyDecodedShown` under `SeekSpec` |
| `xmp_vdecoder.cpp:172` | the slot marked HUGE is the one behind the last published; without sound main never sees the end | `<>(mpc = "stop")` without `MainQuit` |
| `main.cpp:650` | main waits for an outrun while the decoder sleeps | `mpc = "seek_outrun" ~> mpc = "reset"` |
| `main.cpp:1816` | a stream shorter than half the ring never gets ahead that far | fewer frames in the file than half the slots: main stays in `outrun` |
| `xmp_adecoder.cpp:251` | with filters that lengthen frames the ring may be filled up to its tail | `audio_play` with `Size = 13`, `FrameSize = 3`, `Chunks = {3}`: `HeardInOrder` |
| `xmp_adecoder.cpp:309` | `len`, the end of a lap, is raised and never lowered there: after a lap that ends earlier the reader runs on to the old end | `audio_play` with `Size = 11`, `Outburst = 2`, `Chunks = {1, 2}`: `HeardInOrder` |
| `xmp_adecoder.cpp:371` | with long frames the head comes within the reserve of the ring's end while the reader is still in the lap before: `len` is set below the tail | `audio_play` with `Size = 12`, `MinSize = 1`, `FrameSize = 5`, `Outburst = 2`, `Chunks = {1, 5}`, `FileUnits = 20`: `TypeOK` |
| `xmp_adecoder.cpp:314` | the signal can come between the reader's test and its wait | `ppc = "blocked"` with sound in the ring |
| `xmp_adecoder.cpp:397` | the end of the stream is reported before the ring is read dry | `audio_eof => heard = FileUnits` |
| `xmp_adecoder.cpp:465` | the idle decoder waits for a signal nobody sends | a cancel while `dpc` is at its idle wait |
| `playtree.cpp:450` | a group without files is stepped over without moving: the recursion does not end | a group with no children in a tree |
| `playtree.cpp:469` | in random order a group is never marked | a group in the list `Shuffle` |
| `playtree.cpp:422` | stepping back into a repeated group allows one pass more | `Repeats` with the key `<<"step", -1>>` |

## 8. What is not modelled

`PROJECT.json` lists every component with what is left out.  In short:

* The stream cache thread: `cache2_routine` takes its own `mpxp_thread_t` for a
  `cache_vars_t` (`cache2.cpp:234-240`).  Every run of it is undefined from its
  first step; there is no behaviour to model.
* Format drivers, codecs, filters, most outputs, subtitles and parsers: data
  transformations or I/O without behaviour over time.  The vendored codec
  library `lavc` is most of the repository's lines, so that the share of all
  lines that the modules cover is small and will stay so; the share of
  `xmpcore` and of what it works with is what counts.
* Floating point: A-V clocks, frame dropping, the estimated pts.  Their results
  are choices in the modules.
* Several files in one run of the engine, `-loop`, switching tracks, the menu.
* `vplayer_do_sleep` and the waits with a timeout are steps of any duration.
