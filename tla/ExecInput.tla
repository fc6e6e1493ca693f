------------------------------ MODULE ExecInput ------------------------------
(***************************************************************************)
(* Inputs on disk (OnDiskExecInput) as the fuzzers use them: the user's    *)
(* seeds are hard-linked into the queue, loaded, trimmed, and new inputs   *)
(* are written beside them.  The output directory outlives a session and   *)
(* is never emptied.                                                       *)
(*                                                                         *)
(* A file is an inode with links.  Its content is a record of a length and *)
(* a tag; a trimmed content keeps its tag.  A path of the input directory  *)
(* is <<"in", k>>; one of the queue is <<"queue", id, name>>, where name   *)
(* is k for the pivoted seed k and 0 for a find.  Finds with the same      *)
(* number are taken to bear the same name (the operation that made them).  *)
(* The user may hand in a find of an earlier campaign as a seed; it keeps  *)
(* its name in the queue when its number is its place.  The first input of *)
(* a session is one that IJON keeps for itself.                            *)
(***************************************************************************)
EXTENDS Naturals, Sequences, FiniteSets, SequencesExt

CONSTANTS
    Seeds,               \* the user's files
    SeedLists,           \* the orders in which a session may read some of them
    OldFinds,            \* the seeds that are finds of an earlier campaign, and their numbers
    SeedLen, FindLens,   \* length of a seed, and of what the fuzzer finds
    MaxObjects,          \* bound: inputs of a session
    MaxSessions          \* bound: sessions over one output directory

ASSUME InputAssumption ==
    /\ Seeds \subseteq Nat \ {0} /\ IsFiniteSet(Seeds)
    /\ \A ks \in SeedLists : ks \in Seq(Seeds) \ {<<>>} /\ IsInjective(ks)
    /\ DOMAIN OldFinds \subseteq Seeds /\ Range(OldFinds) \subseteq Nat /\ IsInjective(OldFinds)
    /\ SeedLen \in Nat \ {0} /\ FindLens \subseteq Nat /\ MaxObjects \in Nat /\ MaxSessions \in Nat

VARIABLES
    files,               \* content of each inode
    dir,                 \* path -> inode
    objs,                \* the inputs: path, hardlinked, len, mem
    session

inputVars == <<files, dir, objs, session>>

NotLoaded == [cap |-> 0, data |-> [len |-> 0, tag |-> 0]]
SeedContent(k) == [len |-> SeedLen, tag |-> k]
FoundTag == 0
Finds == [len : FindLens, tag : {FoundTag}]

Content(p) == files[dir[p]]
Object(p) == [path |-> p, hardlinked |-> FALSE, len |-> 0, mem |-> NotLoaded]
Bind(p, inode) == [q \in DOMAIN dir \cup {p} |-> IF q = p THEN inode ELSE dir[q]]
Unbind(p) == [q \in DOMAIN dir \ {p} |-> dir[q]]

\* open with O_CREAT and O_TRUNC, then write: through an existing path the inode is kept.
\* d is the directory after what was unlinked; an inode without a link is free again.
WriteFile(d, p, c) ==
    LET free == CHOOSE n \in 1..Cardinality(DOMAIN d) + 1 : n \notin Range(d)
        inode == IF p \in DOMAIN d THEN d[p] ELSE free
    IN  /\ dir' = [q \in DOMAIN d \cup {p} |-> IF q = p THEN inode ELSE d[q]]
        /\ files' = [n \in Range(d) \cup {inode} |-> IF n = inode THEN c ELSE files[n]]

\* CopyFile truncates the target before it reads the source.
CopyFile(d, from, to) ==
    WriteFile(d, to, IF to \in DOMAIN d /\ d[to] = dir[from] THEN [len |-> 0, tag |-> FoundTag]
                     ELSE Content(from))

-----------------------------------------------------------------------------
(* Memory.                                                                 *)

\* Mutant: the length is kept when the buffer is large enough.
ReallocKeepsBuffer(o, newlen) ==
    [o EXCEPT !.len = newlen, !.mem.cap = IF @ = 0 THEN newlen ELSE @]

ReallocBufIfLack(o, newlen) ==
    [o EXCEPT !.mem.cap = IF o.mem = NotLoaded \/ newlen > o.len THEN newlen ELSE @,
              !.len = newlen]

Load(i) ==
    LET c == Content(objs[i].path)
    IN  /\ objs[i].path \in DOMAIN dir
        /\ objs' = [objs EXCEPT ![i] = [ReallocBufIfLack(@, c.len) EXCEPT !.mem.data = c]]
        /\ UNCHANGED <<files, dir, session>>

\* mmap refuses a length of zero; the process ends.
LoadByMmap(i) ==
    LET c == Content(objs[i].path)
    IN  /\ objs[i].path \in DOMAIN dir /\ c.len > 0
        /\ objs' = [objs EXCEPT ![i].mem = [cap |-> c.len, data |-> c], ![i].len = c.len]
        /\ UNCHANGED <<files, dir, session>>

Unload(i) ==
    /\ objs' = [objs EXCEPT ![i].mem = NotLoaded]
    /\ UNCHANGED <<files, dir, session>>

-----------------------------------------------------------------------------
(* Writing.                                                                *)

\* A hard link is removed first.
Save(i, o) ==
    /\ WriteFile(IF o.hardlinked THEN Unbind(o.path) ELSE dir, o.path, o.mem.data)
    /\ objs' = [objs EXCEPT ![i] = [o EXCEPT !.hardlinked = FALSE]]

\* OverwriteKeepingLoaded with a buffer that is taken over, as trimming calls it.
Trim(i) ==
    LET o == objs[i]
        c == [o.mem.data EXCEPT !.len = @ - 1]
    IN  /\ o.mem # NotLoaded /\ c.len > 0
        /\ Save(i, [o EXCEPT !.mem = [cap |-> c.len, data |-> c], !.len = c.len])
        /\ UNCHANGED session

\* OverwriteKeepingLoaded with a buffer that is copied.
OverwriteKeepingLoaded(i, c) ==
    /\ Save(i, [ReallocBufIfLack(objs[i], c.len) EXCEPT !.mem.data = c])
    /\ UNCHANGED session

\* OverwriteThenUnload: the length that the input knows is not brought up to date, and a
\* link is not removed.
OverwriteThenUnload(o, c) ==
    /\ WriteFile(dir, o.path, c)
    /\ objs' = [i \in DOMAIN objs |-> IF objs[i] = o THEN [o EXCEPT !.mem = NotLoaded] ELSE objs[i]]

\* AddToQueue of a find: the input is created, written and not loaded.
AddInput(c) ==
    LET o == Object(<<"queue", Len(objs) - 1, 0>>)
    IN  /\ Len(objs) \in 1..MaxObjects
        /\ \A i \in DOMAIN objs : objs[i].path[1] # "in"
        /\ WriteFile(dir, o.path, c)
        /\ objs' = Append(objs, o)
        /\ UNCHANGED session

\* StoreMaxInput: IJON's own input is written, loaded or not.
MaxPath == <<"max", 0, 0>>

Rewrite(i, c) ==
    /\ objs[i].path = MaxPath
    /\ OverwriteThenUnload(objs[i], c)
    /\ UNCHANGED session

-----------------------------------------------------------------------------
(* The start of a session.                                                 *)

\* ReadTestcases: the inputs refer to the user's own files.
ReadInputs(ks) ==
    /\ objs = <<>>
    /\ objs' = <<Object(MaxPath)>> \o [i \in DOMAIN ks |-> Object(<<"in", ks[i]>>)]
    /\ UNCHANGED <<files, dir, session>>

\* A seed that is named by its own place in the queue keeps its name.
QueueName(i) ==
    LET k == objs[i].path[2]
    IN  <<"queue", i - 2, IF k \in DOMAIN OldFinds /\ OldFinds[k] = i - 2 THEN 0 ELSE k>>

Unpivoted(i) == objs[i].path[1] = "in" /\ \A j \in 1..i - 1 : objs[j].path[1] # "in"

\* PivotInputs, one seed: a link, which fails where the name is taken or on another file
\* system; then the name is freed and the file copied.
LinkAndRefer(i) ==
    /\ Unpivoted(i) /\ QueueName(i) \notin DOMAIN dir
    /\ dir' = Bind(QueueName(i), dir[objs[i].path])
    /\ objs' = [objs EXCEPT ![i].path = QueueName(i), ![i].hardlinked = TRUE]
    /\ UNCHANGED <<files, session>>

\* Mutant: the copy is written through what is there.
CopyAndReferThrough(i) ==
    /\ Unpivoted(i)
    /\ CopyFile(dir, objs[i].path, QueueName(i))
    /\ objs' = [objs EXCEPT ![i].path = QueueName(i)]
    /\ UNCHANGED session

CopyAndRefer(i) ==
    /\ Unpivoted(i)
    /\ CopyFile(Unbind(QueueName(i)), objs[i].path, QueueName(i))
    /\ objs' = [objs EXCEPT ![i].path = QueueName(i), ![i].hardlinked = FALSE]
    /\ UNCHANGED session

\* The fuzzer ends or is killed; another session starts over the same directories.
Restart ==
    /\ session < MaxSessions /\ objs # <<>>
    /\ session' = session + 1 /\ objs' = <<>>
    /\ UNCHANGED <<files, dir>>

InputInit ==
    /\ files = [k \in Seeds |-> SeedContent(k)]
    /\ dir = [p \in {<<"in", k>> : k \in Seeds} |-> p[2]]
    /\ objs = <<>> /\ session = 1

InputNext ==
    \/ \E ks \in SeedLists : ReadInputs(ks)
    \/ \E i \in DOMAIN objs :
          \/ LinkAndRefer(i) \/ CopyAndRefer(i)
          \/ objs[i].path[1] # "in" /\ (Load(i) \/ LoadByMmap(i) \/ Unload(i))
          \/ \E c \in Finds : Rewrite(i, c)
          \/ objs[i].path[1] = "queue" /\ (Trim(i) \/ \E c \in Finds : OverwriteKeepingLoaded(i, c))
    \/ \E c \in Finds : AddInput(c)
    \/ Restart

-----------------------------------------------------------------------------
(* Properties.                                                             *)

\* A session after the first may make a find with the number and the name of a seed that was
\* linked under its own name; AddToQueue then writes through the link that is left.
SeedExposed(k) == k \in DOMAIN OldFinds /\ session > 1

\* The user's seeds keep their content, in this session and the next one, although the
\* queue holds hard links to them that are trimmed, copied over and rewritten; except that
\* a seed that is an old find is safe in the first session only.
SeedsUntouched == \A k \in Seeds : Content(<<"in", k>>) = SeedContent(k) \/ SeedExposed(k)

\* The buffer of a loaded input holds its length, whichever way it was loaded before, and
\* its content is the file's: a write by one way is never missed by another, but for an
\* input that is still a link to such a seed.
MemoryIsFile ==
    \A i \in DOMAIN objs :
        LET o == objs[i]
        IN  o.mem # NotLoaded =>
              /\ o.mem.cap >= o.len /\ o.len = o.mem.data.len
              /\ o.mem.data = Content(o.path) \/ (o.hardlinked /\ SeedExposed(o.path[3]))
=============================================================================
