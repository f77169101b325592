------------------------------ MODULE PlayTree ------------------------------
(***************************************************************************)
(* The playlist: a tree of files, groups and playlist files, and the       *)
(* iterator that main moves over it (PlayTree_Iter).  step, up_step and    *)
(* down_step call each other; here each call is a step of its own, with    *)
(* pc the function called next and d its argument.                         *)
(*                                                                         *)
(* A node is a number, its siblings a sequence.  Iterator "real" is main's,*)
(* "trial" the copy it makes to find out whether a key can be obeyed.      *)
(***************************************************************************)
EXTENDS Integers, FiniteSets, SequencesExt

CONSTANTS Nodes, Root, Trees

None == 0
TreeType ==
    [kids : [Nodes -> Seq(Nodes)],      \* children, in order
     files : [Nodes -> Nat],            \* alternative files; 0 for a group
     loops : [Nodes -> Nat \cup {-1}],   \* PlayTree.loop; -1 for all below 0
     list : [Nodes -> Nodes \cup {None}], \* the tree in a playlist file
     shuffle : BOOLEAN,                 \* PLAY_TREE_RND of the root
     keys : SUBSET {<<"step", 1>>, <<"step", -1>>, <<"up", 1>>, <<"up", -1>>}]

ASSUME TreesAssumption ==
    /\ Nodes \subseteq Nat \ {None} /\ IsFiniteSet(Nodes) /\ Root \in Nodes
    /\ \A t \in Trees :
        /\ t \in TreeType
        \* Children come after their parents, so that it is a tree.
        /\ \A n \in Nodes : \A i \in DOMAIN t.kids[n] : t.kids[n][i] > n
        /\ \A n \in Nodes : t.list[n] = None \/ t.list[n] > n

\* The root is a group.  A node has one parent and one place among its
\* siblings, the root none; a file has no children; what a playlist file
\* lists is a tree of its own.
ASSUME ShapeAssumption ==
    \A t \in Trees : t.files[Root] = 0 /\ \A n, m \in Nodes :
        /\ \A i \in DOMAIN t.kids[n] :
            /\ t.kids[n][i] \notin {Root, t.list[m]}
            /\ \A j \in DOMAIN t.kids[m] :
                t.kids[n][i] = t.kids[m][j] => n = m /\ i = j
        /\ t.files[n] > 0 => t.kids[n] = <<>>
        /\ t.list[n] # None =>
            /\ t.files[n] > 0 /\ t.list[n] # Root
            /\ t.list[n] = t.list[m] => n = m

Iters == {"real", "trial"}

VARIABLES
    tree,       \* what was read, as above; its lists change in kids
    kids,       \* child, next and prev of all nodes
    played,     \* nodes with PLAY_TREE_RND_PLAYED
    at, loop, stack, mode,  \* PlayTree_Iter: tree, loop, status_stack, mode
    file,       \* PlayTree_Iter.file of the real one
    who, pc, d, \* the iterator being moved, what is called next, direction
    result,     \* what the call has returned
    site,       \* where main has called from
    key,        \* the key a trial is made for
    eof,        \* the direction main goes on in
    entry,      \* the playlist file handle_playlist replaces
    place, aim, \* history: place of the file played, of the next one,
    heard       \*   and the files played so far in random order

iterVars == <<at, loop, stack, mode, file>>
mainVars == <<site, key, eof, entry>>
history == <<place, aim, heard>>
vars == <<tree, kids, played, iterVars, who, pc, d, result, mainVars, history>>

Init ==
    /\ tree \in Trees /\ kids = tree.kids /\ played = {}
    /\ at = [i \in Iters |-> None] /\ loop = [i \in Iters |-> 0]
    /\ stack = [i \in Iters |-> <<>>] /\ mode = [i \in Iters |-> "normal"]
    /\ file = -1
    /\ who = "real" /\ pc = "step" /\ d = 0 /\ result = "none"
    /\ site = "entry" /\ key = <<"step", 1>> /\ eof = 1 /\ entry = None
    /\ place = 0 /\ aim = 1 /\ heard = {}

Set(f, i, x) == [f EXCEPT ![i] = x]

-----------------------------------------------------------------------------
(* The tree.                                                               *)

Parent(n) ==
    LET P == {m \in Nodes : n \in ToSet(kids[m])}
    IN IF P = {} THEN None ELSE CHOOSE m \in P : TRUE

Siblings(n) == IF Parent(n) = None THEN <<n>> ELSE kids[Parent(n)]
Place(n) == CHOOSE i \in DOMAIN Siblings(n) : Siblings(n)[i] = n
Next(n) == IF Place(n) = Len(Siblings(n)) THEN None ELSE Siblings(n)[Place(n) + 1]
Prev(n) == IF Place(n) = 1 THEN None ELSE Siblings(n)[Place(n) - 1]

\* is_valid: there is a file in it.
Valid(n) ==
    LET valid[m \in Nodes] ==
            tree.files[m] > 0 \/ \E i \in DOMAIN kids[m] : valid[kids[m][i]]
    IN valid[n]

-----------------------------------------------------------------------------
(* PlayTree_Iter::step                                                     *)

Here == at[who]
Returns(r) == pc' = "returned" /\ result' = r

Moving == UNCHANGED <<tree, kids, mainVars, history, who>>

\* Only the root is ever in random order.
Random == tree.shuffle /\ Parent(Here) = Root

InStep ==
    /\ pc = "step" /\ Here # None
    /\ mode' = Set(mode, who, IF Random THEN "random" ELSE "normal")
    /\ file' = IF who = "real" THEN -1 ELSE file
    /\ Moving

\* The first call of an iterator.
StepFirst ==
    /\ pc = "step" /\ Here = None
    /\ at' = Set(at, who, Root) /\ d' = 0
    /\ UNCHANGED <<loop, stack, mode, file, pc, result, played>> /\ Moving

\* play_tree_rnd_step: any sibling not played yet.
RandomTargets == {n \in ToSet(Siblings(Here)) : n \notin played}
Target == CASE d > 0 -> Next(Here) [] d < 0 -> Prev(Here) [] OTHER -> Here
Targets == IF Random THEN RandomTargets ELSE {Target} \ {None}

\* Is there any valid child?  Only the first one is asked.
Opens(n) == kids[n] # <<>> /\ Valid(kids[n][1])

StepInto ==
    /\ InStep
    /\ \E n \in Targets : Opens(n) /\ at' = Set(at, who, n)
    /\ pc' = "down"
    /\ UNCHANGED <<loop, stack, d, result, played>>

\* Mutant: a file chosen at random is not marked.
StepEntry_Unmarked ==
    /\ InStep
    /\ \E n \in Targets : ~Opens(n) /\ Valid(n) /\ at' = Set(at, who, n)
    /\ Returns("ENTRY") /\ UNCHANGED <<loop, stack, d, played>>

StepEntry ==
    /\ InStep
    /\ \E n \in Targets :
        /\ ~Opens(n) /\ Valid(n)
        /\ at' = Set(at, who, n)
        /\ played' = IF Random THEN played \cup {n} ELSE played
    /\ Returns("ENTRY")
    /\ UNCHANGED <<loop, stack, d>>

\* All files of a random list have been played.
StepNoneLeft ==
    /\ InStep
    /\ Random /\ RandomTargets = {}
    /\ Returns("END")
    /\ UNCHANGED <<at, loop, stack, d, played>>

Loops == tree.loops[Parent(Here)]
MustLoop ==
    /\ Parent(Here) # None /\ Loops # 0
    /\ \/ d > 0 /\ loop[who] # 0
       \/ d < 0 /\ (loop[who] < 0 \/ loop[who] < Loops)

\* Mutant: a group repeated for ever is counted, too.
LoopOn_Counts == IF d > 0 THEN loop[who] - 1 ELSE loop[who] + 1

LoopOn ==
    IF d > 0 THEN IF loop[who] > 0 THEN loop[who] - 1 ELSE loop[who]
    ELSE IF loop[who] >= 0 THEN loop[who] + 1 ELSE loop[who]

\* Mutant: the direction is kept, so that the first file is jumped over.
StepLoop_KeepsDirection ==
    /\ InStep /\ ~Random /\ Targets = {} /\ MustLoop
    /\ at' = Set(at, who, IF d > 0 THEN Head(Siblings(Here)) ELSE Last(Siblings(Here)))
    /\ loop' = Set(loop, who, LoopOn)
    /\ UNCHANGED <<stack, pc, d, result, played>>

\* The end of a group that is repeated: on to its other end.
StepLoop ==
    /\ InStep /\ ~Random /\ Targets = {} /\ MustLoop
    /\ at' = Set(at, who, IF d > 0 THEN Head(Siblings(Here)) ELSE Last(Siblings(Here)))
    /\ loop' = Set(loop, who, LoopOn)
    /\ d' = 0
    /\ UNCHANGED <<stack, pc, result, played>>

StepUp ==
    /\ InStep /\ ~Random /\ Targets = {} /\ ~MustLoop
    /\ pc' = "up"
    /\ UNCHANGED <<at, loop, stack, d, result, played>>

-----------------------------------------------------------------------------
(* PlayTree_Iter::up_step and down_step                                    *)

InUp == pc = "up" /\ file' = (IF who = "real" THEN -1 ELSE file) /\ Moving

UpEnd ==
    /\ InUp
    /\ Parent(Here) = Parent(Root)
    /\ Returns("END")
    /\ UNCHANGED <<at, loop, stack, mode, d, played>>

UpMark == IF mode[who] = "random" THEN played \cup {Parent(Here)} ELSE played

\* Mutant: the status of the group is left on the stack.
UpPop_Top == /\ loop' = Set(loop, who, Last(stack[who]))
             /\ UNCHANGED stack

UpPop == /\ loop' = Set(loop, who, Last(stack[who]))
         /\ stack' = Set(stack, who, Front(stack[who]))

Up ==
    /\ InUp
    /\ Parent(Here) # Parent(Root) /\ stack[who] # <<>>
    /\ UpPop
    /\ at' = Set(at, who, Parent(Here)) /\ played' = UpMark
    /\ pc' = "step"
    /\ UNCHANGED <<mode, d, result>>

\* top() and pop() of an empty stack are undefined: the process may die, or
\* go on with whatever it finds for a loop count.
UpEmpty ==
    /\ InUp
    /\ Parent(Here) # Parent(Root) /\ stack[who] = <<>>
    /\ \/ pc' = "crashed" /\ UNCHANGED <<at, loop, played>>
       \/ /\ pc' = "step"
          /\ \E l \in {-1, 0, 1} : loop' = Set(loop, who, l)
          /\ at' = Set(at, who, Parent(Here)) /\ played' = UpMark
    /\ UNCHANGED <<stack, mode, d, result>>

Down ==
    /\ pc = "down" /\ pc' = "step"
    /\ file' = IF who = "real" THEN -1 ELSE file
    /\ stack' = Set(stack, who, Append(stack[who], loop[who]))
    /\ loop' = Set(loop, who, tree.loops[Here] - 1)
    /\ at' = Set(at, who, IF d >= 0 THEN Head(kids[Here]) ELSE Last(kids[Here]))
    /\ d' = 0
    /\ UNCHANGED <<mode, result, played>> /\ Moving

-----------------------------------------------------------------------------
(* What should be played, from the tree as it was read.                    *)

Times(s, n) == FlattenSeq([i \in 1 .. n |-> s])

\* The files in the order of the tree, repeated groups and playlist files
\* written out.
Order ==
    LET files[n \in Nodes] ==
            IF tree.list[n] # None THEN files[tree.list[n]]
            ELSE IF tree.files[n] > 0 THEN <<n>>
            ELSE Times(FlattenSeq([i \in DOMAIN tree.kids[n] |->
                                        files[tree.kids[n][i]]]),
                       IF tree.loops[n] > 1 THEN tree.loops[n] ELSE 1)
    IN files[Root]

InOneOrder == ~tree.shuffle /\ \A n \in Nodes : tree.loops[n] >= 0

\* The places of what is below n.
Inside(n) ==
    LET below[m \in Nodes] ==
            LET K == ToSet(kids[m]) \cup ({tree.list[m]} \ {None})
            IN {m} \cup UNION {below[k] : k \in K}
    IN {i \in DOMAIN Order : Order[i] \in below[n]}

\* The place a call of main for this key should lead to; none is -1.
Aim(k) ==
    LET P == Inside(Parent(at["real"]))
        A == {i \in 0 .. Len(Order) + 1 :
                 i \notin P /\ IF k[2] > 0 THEN i - 1 \in P ELSE i + 1 \in P}
    IN CASE ~InOneOrder -> aim
         [] InOneOrder /\ k[1] = "step" -> place + k[2]
         [] OTHER -> IF A = {} THEN -1 ELSE CHOOSE i \in A : TRUE

-----------------------------------------------------------------------------
(* main.cpp: from one file to the next.                                    *)

Calls(i, s, k) ==
    /\ who' = i /\ site' = s
    /\ pc' = k[1] /\ d' = k[2] /\ result' = "none"

Playing == pc = "playing"
TreeOnly == UNCHANGED <<tree, at, loop, stack, mode>>

\* goto_next_file, also when the file cannot be opened
\* (libmpdemux_was_interrupted): by itself on to the next one ...
NextEntry ==
    /\ Playing
    /\ Calls("real", "entry", <<"step", 1>>)
    /\ aim' = Aim(<<"step", 1>>)
    /\ TreeOnly /\ UNCHANGED <<kids, played, file, key, eof, entry, place, heard>>

\* ... or where a key says that was pressed while it was opened.
Interrupted ==
    /\ Playing
    /\ \E k \in tree.keys : Calls("real", "entry", k) /\ aim' = Aim(k)
    /\ TreeOnly /\ UNCHANGED <<kids, played, file, key, eof, entry, place, heard>>

InterruptedAlt ==
    /\ Playing
    /\ \E k \in tree.keys : eof' = k[2]
    /\ pc' = "name"
    /\ TreeOnly
    /\ UNCHANGED <<kids, played, file, who, d, result, site, key, entry, history>>

\* MP_CMD_PLAY_ALT_SRC_STEP, the other files of an entry.
AltSource ==
    /\ Playing /\ tree.files[at["real"]] > 1
    /\ \/ file < tree.files[at["real"]] /\ eof' = 1
       \/ file > 1 /\ eof' = -1
    /\ pc' = "name"
    /\ TreeOnly
    /\ UNCHANGED <<kids, played, file, who, d, result, site, key, entry, history>>

\* MP_CMD_PLAY_TREE_STEP, MP_CMD_PLAY_TREE_UP_STEP: the iterator is copied,
\* all but its stack, and the copy is moved.
Key ==
    /\ Playing
    /\ \E k \in tree.keys : key' = k /\ Calls("trial", "key", k)
    /\ at' = Set(at, "trial", at["real"]) /\ loop' = Set(loop, "trial", loop["real"])
    /\ mode' = Set(mode, "trial", mode["real"])
    /\ stack' = Set(stack, "trial", <<>>)
    /\ UNCHANGED <<tree, kids, played, file, eof, entry, history>>

Returned(s) == pc = "returned" /\ site = s

KeyTried ==
    /\ Returned("key")
    /\ IF result = "ENTRY" THEN Calls("real", "entry", key) /\ aim' = Aim(key)
       ELSE /\ pc' = "playing" /\ who' = "real"
            /\ UNCHANGED <<site, d, result, aim>>
    /\ TreeOnly /\ UNCHANGED <<kids, played, file, key, eof, entry, place, heard>>

\* The iterator is deleted when there is nothing to play.
EntryFound ==
    /\ Returned("entry") \/ Returned("name")
    /\ pc' = IF result = "ENTRY" THEN "name" ELSE "ended"
    /\ eof' = IF site = "entry" THEN 1 ELSE eof
    /\ TreeOnly
    /\ UNCHANGED <<kids, played, file, who, d, result, site, key, entry, history>>

\* get_playable_source_name: no (more) files, so on to the next entry.
NameNone ==
    /\ pc = "name" /\ file >= tree.files[at["real"]] - 1
    /\ Calls("real", "name", <<"step", eof>>)
    /\ aim' = Aim(<<"step", eof>>)
    /\ TreeOnly /\ UNCHANGED <<kids, played, file, key, eof, entry, place, heard>>

Name ==
    /\ pc = "name" /\ file < tree.files[at["real"]] - 1
    /\ file' = IF eof > 0 THEN file + 1
               ELSE IF file <= 0 THEN tree.files[at["real"]] - 1 ELSE file - 1
    /\ IF tree.list[at["real"]] = None
         THEN /\ pc' = "playing" /\ place' = aim
              /\ heard' = IF tree.shuffle THEN heard \cup {at["real"]} ELSE {}
         ELSE pc' = "playlist" /\ UNCHANGED <<place, heard>>
    /\ TreeOnly
    /\ UNCHANGED <<kids, played, who, d, result, mainVars, aim>>

\* handle_playlist: what the file lists is inserted after it, the iterator
\* moves on and the file is removed.
InsertList ==
    /\ pc = "playlist" /\ entry' = at["real"]
    /\ LET n == at["real"]
       IN kids' = Set(kids, Parent(n), InsertAt(Siblings(n), Place(n) + 1, tree.list[n]))
    /\ Calls("real", "list", <<"step", 1>>)
    /\ TreeOnly /\ UNCHANGED <<played, file, key, eof, history>>

\* Mutant: the playlist file stays in the tree.
RemoveList_Never ==
    /\ Returned("list") /\ result = "ENTRY"
    /\ entry' = None /\ pc' = "name" /\ eof' = 1
    /\ TreeOnly /\ UNCHANGED <<kids, played, file, who, d, result, site, key, history>>

RemoveList ==
    /\ Returned("list") /\ result = "ENTRY"
    /\ kids' = Set(kids, Parent(entry),
                    RemoveAt(Siblings(entry), Place(entry)))
    /\ entry' = None /\ pc' = "name" /\ eof' = 1
    /\ TreeOnly /\ UNCHANGED <<played, file, who, d, result, site, key, history>>

-----------------------------------------------------------------------------
Iterate ==
    \/ StepFirst \/ StepInto \/ StepEntry \/ StepNoneLeft \/ StepLoop \/ StepUp
    \/ UpEnd \/ Up \/ Down

Main ==
    \/ NextEntry \/ Interrupted \/ InterruptedAlt \/ AltSource \/ EntryFound
    \/ NameNone \/ Name \/ InsertList \/ RemoveList

PlayNext == Iterate \/ Main
KeyNext == PlayNext \/ Key \/ KeyTried \/ UpEmpty

PlaySpec == Init /\ [][PlayNext]_vars /\ WF_vars(Iterate)
KeySpec == Init /\ [][KeyNext]_vars /\ WF_vars(Iterate)

-----------------------------------------------------------------------------
\* Every variable has its type; a loop count is what is left, -2 if there is
\* no end of it.
TypeOK ==
    /\ tree \in Trees /\ kids \in [Nodes -> Seq(Nodes)] /\ played \subseteq Nodes
    /\ at \in [Iters -> Nodes \cup {None}] /\ loop \in [Iters -> Nat \cup {-1, -2}]
    /\ stack \in [Iters -> Seq(Int)] /\ mode \in [Iters -> {"normal", "random"}]
    /\ file \in Int /\ who \in Iters /\ d \in -1 .. 1
    /\ pc \in {"step", "up", "down", "returned", "name", "playing", "playlist",
               "ended", "crashed"}
    /\ result \in {"none", "ENTRY", "END"}
    /\ site \in {"entry", "name", "list", "key"} /\ eof \in {-1, 1}
    /\ entry \in Nodes \cup {None}
    /\ place \in Int /\ aim \in Int /\ heard \subseteq Nodes

\* status_stack holds one status for each group above the iterator, down to
\* the root, so that up_step never pops more than down_step has pushed.
Depth ==
    LET depth[n \in Nodes \cup {None}] ==
            IF n \in {None, Root} THEN 0 ELSE 1 + depth[Parent(n)]
    IN depth
StackIsPath == Len(stack["real"]) = Depth[at["real"]]

\* Files are played in the order of the tree: groups as often as they say,
\* playlist files replaced by what they list, a step back leading to the file
\* before; the end comes behind the last file, or before the first on the way
\* back.
InOrder ==
    InOneOrder =>
        /\ Playing => place \in DOMAIN Order /\ at["real"] = Order[place]
        /\ pc = "ended" => aim \in {0, Len(Order) + 1}

\* In random order no file is played twice, and none is left out.
ShuffledOnce ==
    [][tree.shuffle =>
        /\ pc = "name" /\ pc' = "playing" => at["real"] \notin heard
        /\ pc' = "ended" => \A n \in Nodes : tree.files[n] > 0 => n \in heard]_vars

\* Moving the iterator comes to an end, also in groups repeated for ever.
StepReturns == pc = "step" ~> pc \notin {"step", "up", "down"}

\* "Go backward/forward in playlist": a key does not end the program.
KeysGoOn == pc # "crashed"
=============================================================================
