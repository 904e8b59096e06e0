------------------------------ MODULE CopyTree ------------------------------
(***************************************************************************)
(* copy and remove (app/copy/main.c, app/remove/main.c) over the walk by   *)
(* names of include/path.c and the batches of include/dirent.c.  A file    *)
(* system is a function from inodes to what they are; the recursions keep  *)
(* a stack of open directories.  Meanwhile somebody may remove one entry   *)
(* that is not a directory.                                                *)
(*                                                                         *)
(* A path is the sequence of its names, the first of which is "/" if it is *)
(* absolute.  A link leads to a path without links.  Every directory here  *)
(* can be opened, and the files are on one device.                         *)
(***************************************************************************)
EXTENDS Naturals, Sequences, SequencesExt, FiniteSets

CONSTANTS
  Ids,        \* the inodes, of which 1 is the root directory
  Systems,    \* file systems to begin with
  Jobs,       \* [op, old, new, cwd]: program, its arguments, its working directory
  Depth,      \* the longest path below an argument
  Batch       \* so many names are returned by one getdents64

None == 0
Root == 1

VARIABLES
  fs,         \* inode -> [kind, kids, up, data, mode]; kind is free, dir, link, file or other
  was,        \* fs at the start
  job, tpc,   \* what is run, and whether it runs, has failed or has returned 0
  stack,      \* the directories open in copy_dir and do_remove
  full,       \* the disk is full for data
  gone        \* the inode that somebody removed, or None

treeVars == <<fs, was, job, tpc, stack, full, gone>>

Free == [kind |-> "free", kids |-> [n \in {} |-> None], up |-> None, data |-> <<>>, mode |-> "-"]
Kind(f, i) == IF i = None THEN "none" ELSE f[i].kind

-----------------------------------------------------------------------------
(* Walking                                                                 *)

\* The entry n of the directory d, not followed.
Child(f, d, n) ==
  CASE n = "/" -> Root
    [] Kind(f, d) # "dir" -> None
    [] n = "." -> d
    [] n = ".." -> f[d].up
    [] OTHER -> IF n \in DOMAIN f[d].kids THEN f[d].kids[n] ELSE None

Walk(step(_,_), d, names) ==
  LET at[n \in 0 .. Len(names)] == IF n = 0 THEN d ELSE step(at[n - 1], names[n])
  IN  at[Len(names)]

At(f, d, names) == Walk(LAMBDA x, n : Child(f, x, n), d, names)

\* openat
Open(f, d, n) ==
  LET i == Child(f, d, n)
  IN  IF Kind(f, i) = "link" THEN At(f, d, f[i].data) ELSE i

\* dirname_open, dirname_openat: every name but the last is opened.
DirnameOpen(f, path) == Walk(LAMBDA x, n : Open(f, x, n), job.cwd, Front(path))

\* The directories from d upwards, d included: fissubdir goes up until an inode
\* comes twice.
Upwards(f, d) ==
  LET up[n \in 0 .. Len(stack) + 8] == IF n = 0 THEN d ELSE f[up[n - 1]].up
  IN  {up[n] : n \in DOMAIN up}

\* Slip: nobody asks whether the copy lies in the original.
NeverInside(f, dir, fd) == FALSE

\* fissubdir # 0: fd lies in dir, or cannot be gone up from.
FIsSubdir(f, dir, fd) == Kind(f, fd) # "dir" \/ dir \in Upwards(f, fd)

\* issubdir(path, "."): what cannot be opened is an error, which is not 0 either.
\* A file has nothing in it.
IsSubdirOfCwd(f, path) ==
  LET i == Open(f, DirnameOpen(f, path), Last(path))
  IN  i = None \/ FIsSubdir(f, i, job.cwd)

-----------------------------------------------------------------------------
(* Changes                                                                 *)

Unused == {i \in Ids : fs[i].kind = "free"}

\* symlinkat, mkdirat, openat with O_EXCL: there must not be an entry n in d.
CanMake(d, n) == Kind(fs, d) = "dir" /\ Child(fs, d, n) = None /\ Unused # {}
New(d, n, node, f) ==
  LET i == CHOOSE j \in Unused : TRUE
  IN  [f EXCEPT ![i] = [node EXCEPT !.up = d],
                ![d].kids = [x \in DOMAIN @ \cup {n} |-> IF x = n THEN i ELSE @[x]]]

Unlink(f, d, n) ==
  [f EXCEPT ![Child(f, d, n)] = Free, ![d].kids = [x \in DOMAIN @ \ {n} |-> @[x]]]

Frame(from, to, d, n, mode) ==
  [from |-> from, to |-> to, at |-> d, as |-> n, mode |-> mode,
   first |-> DOMAIN fs[from].kids, seen |-> {}, buf |-> {}]

Top == Head(stack)
Stop(how) == tpc' = how /\ stack' = <<>>
Exit == Stop("failed") /\ UNCHANGED fs

\* After a call of copy_..., the loop of the caller goes on, or main returns.
Run(s) == stack' = s /\ tpc' = "run"
GoOn(rest) == IF rest = <<>> THEN Stop("ok") ELSE Run(rest)

-----------------------------------------------------------------------------
(* copy                                                                    *)

CopyLink(o, d, n, rest) ==
  IF CanMake(d, n)
  THEN fs' = New(d, n, fs[o], fs) /\ GoOn(rest)
  ELSE Exit

\* Modes: a new file has 0644 until it is whole.
CopyFile(o, d, n, rest) ==
  CASE ~CanMake(d, n) -> Exit
    [] full -> /\ fs' = New(d, n, [Free EXCEPT !.kind = "file", !.mode = "0644"], fs)
               /\ Stop("failed")
    [] OTHER -> fs' = New(d, n, fs[o], fs) /\ GoOn(rest)

\* The new directory may be there already; the check comes after it is made.
CopyDir(o, d, n, rest) ==
  LET made == IF CanMake(d, n)
              THEN New(d, n, [Free EXCEPT !.kind = "dir", !.mode = "0755"], fs) ELSE fs
      to == Open(made, d, n)
  IN  /\ fs' = made
      /\ IF o = None \/ to = None \/ FIsSubdir(made, o, to)
         THEN Stop("failed")
         ELSE Run(<<Frame(o, to, d, n, fs[o].mode)>> \o rest)

CopyAny(o, d, n, rest) ==
  CASE Kind(fs, o) = "link" -> CopyLink(o, d, n, rest)
    [] Kind(fs, o) = "file" -> CopyFile(o, d, n, rest)
    [] Kind(fs, o) = "dir" -> CopyDir(o, d, n, rest)
    [] OTHER -> GoOn(rest) /\ UNCHANGED fs

\* main
CopyMain ==
  /\ tpc = "start" /\ job.op = "copy"
  /\ LET o == Child(fs, DirnameOpen(fs, job.old), Last(job.old))
     IN  IF o = None THEN Exit
         ELSE CopyAny(o, DirnameOpen(fs, job.new), Last(job.new), <<>>)
  /\ UNCHANGED <<was, job, full, gone>>

\* The next name of the buffer: fstatat has no result if it is not there any more.
CopyNext ==
  /\ stack # <<>> /\ job.op = "copy"
  /\ \E n \in Top.buf :
       LET rest == [stack EXCEPT ![1].buf = @ \ {n}]
       IN  CopyAny(Child(fs, Top.from, n), Top.to, n, rest)
  /\ UNCHANGED <<was, job, full, gone>>

\* Between fstatat and the open that follows it, the file is removed.
CopyLost ==
  /\ stack # <<>> /\ job.op = "copy" /\ gone = None
  /\ \E n \in Top.buf :
       LET o == Child(fs, Top.from, n)
       IN  /\ Kind(fs, o) \in {"link", "file"}
           /\ fs' = Unlink(fs, Top.from, n) /\ gone' = o
  /\ Stop("failed")
  /\ UNCHANGED <<was, job, full>>

CopyDirEnds ==
  /\ stack # <<>> /\ job.op = "copy" /\ Top.buf = {}
  /\ (Top.first \cap DOMAIN fs[Top.from].kids) \subseteq Top.seen
  /\ LET i == Open(fs, Top.at, Top.as) IN fs' = [fs EXCEPT ![i].mode = Top.mode]
  /\ GoOn(Tail(stack))
  /\ UNCHANGED <<was, job, full, gone>>

-----------------------------------------------------------------------------
(* Reading a directory                                                     *)

\* readdir with its buffer empty: some names not returned yet.  Of those that
\* came after the directory was opened, getdents64 may return any.
ReadDir ==
  /\ stack # <<>> /\ Top.buf = {}
  /\ \E b \in SUBSET (DOMAIN fs[Top.from].kids \ Top.seen) :
       /\ Cardinality(b) \in 1..Batch
       /\ stack' = [stack EXCEPT ![1].buf = b, ![1].seen = @ \cup b]
  /\ UNCHANGED <<fs, was, job, tpc, full, gone>>

-----------------------------------------------------------------------------
(* remove                                                                  *)

\* Slip: a link to a directory is taken for one.
OpenAlways(f, d, n) == Open(f, d, n)

\* fstatat with AT_SYMLINK_NOFOLLOW
Lstat(f, d, n) == Child(f, d, n)

\* do_remove: what is no directory is removed, a directory is gone into.
RemoveAny(d, n, rest) ==
  LET i == Lstat(fs, d, n)
  IN  CASE i = None -> Exit
        [] Kind(fs, i) = "dir" -> Run(<<Frame(i, None, d, n, "-")>> \o rest) /\ UNCHANGED fs
        [] OTHER -> fs' = Unlink(fs, d, n) /\ GoOn(rest)

RemoveMain ==
  /\ tpc = "start" /\ job.op = "remove"
  /\ IF IsSubdirOfCwd(fs, job.old)
     THEN Exit
     ELSE RemoveAny(DirnameOpen(fs, job.old), Last(job.old), <<>>)
  /\ UNCHANGED <<was, job, full, gone>>

RemoveNext ==
  /\ stack # <<>> /\ job.op = "remove"
  /\ \E n \in Top.buf : RemoveAny(Top.from, n, [stack EXCEPT ![1].buf = @ \ {n}])
  /\ UNCHANGED <<was, job, full, gone>>

\* A directory that is not empty stays, and nobody looks at the result.
RemoveDirEnds ==
  /\ stack # <<>> /\ job.op = "remove" /\ Top.buf = {}
  /\ (Top.first \cap DOMAIN fs[Top.from].kids) \subseteq Top.seen
  /\ fs' = IF fs[Top.from].kids = Free.kids THEN Unlink(fs, Top.at, Top.as) ELSE fs
  /\ GoOn(Tail(stack))
  /\ UNCHANGED <<was, job, full, gone>>

-----------------------------------------------------------------------------
\* Somebody removes a file or a link of the tree.
Meddle ==
  /\ stack # <<>> /\ gone = None
  /\ \E f \in {stack[i].from : i \in DOMAIN stack} : \E n \in DOMAIN fs[f].kids :
       LET i == Child(fs, f, n)
       IN  Kind(fs, i) \in {"link", "file"} /\ fs' = Unlink(fs, f, n) /\ gone' = i
  /\ UNCHANGED <<was, job, tpc, stack, full>>

TreeInit ==
  /\ fs \in Systems /\ was = fs
  /\ job \in Jobs /\ tpc = "start" /\ stack = <<>> /\ full \in BOOLEAN /\ gone = None

Program ==
  \/ CopyMain \/ CopyNext \/ CopyLost \/ CopyDirEnds \/ ReadDir
  \/ RemoveMain \/ RemoveNext \/ RemoveDirEnds
TreeNext == Program \/ Meddle
TreeSpec == TreeInit /\ [][TreeNext]_treeVars /\ WF_treeVars(Program)

-----------------------------------------------------------------------------
(***************************************************************************)
(* Properties.                                                             *)
(***************************************************************************)

Old == Child(was, DirnameOpen(was, job.old), Last(job.old))
NewDir == DirnameOpen(was, job.new)
NewNode(f) == Child(f, NewDir, Last(job.new))

\* Inode j lies in the tree of i.
Within(i, j) == j # None /\ was[j].kind # "free" /\ i \in Upwards(was, j)

\* What is below the inode i that copy copies: relative path -> what is there.
Below(f, i) ==
  LET names == UNION {DOMAIN f[j].kids : j \in Ids}
      paths == {p \in UNION {[1..n -> names] : n \in 0..Depth} : Kind(f, At(f, i, p)) \notin {"none", "other"}}
  IN  [p \in paths |-> LET x == f[At(f, i, p)] IN [kind |-> x.kind, data |-> x.data, mode |-> x.mode]]

\* The inode i but for the entry n in d, and for what somebody removed.
Rest(f, i, d, n) ==
  [f[i] EXCEPT !.kids = [x \in {y \in DOMAIN @ : @[y] # gone /\ ~(i = d /\ y = n)} |-> @[x]]]
AsItWas(i, d, n) == i = gone \/ Rest(fs, i, d, n) = Rest(was, i, d, n)

\* copy makes at a new place what was at the old one, with all modes, and changes
\* nothing else; a copy into itself makes an empty directory and fails.  It
\* fails only then, and if the disk is full or somebody has removed a file.
CopyRight ==
  job.op = "copy" /\ NewNode(was) = None /\ NewDir # None /\ Old # None =>
    /\ \A i \in Ids : was[i].kind # "free" => AsItWas(i, NewDir, Last(job.new))
    /\ tpc = "ok" /\ gone = None => Below(fs, NewNode(fs)) = Below(was, Old)
    /\ tpc = "failed" => full \/ gone # None \/ Within(Old, NewDir)
    /\ Within(Old, NewDir) => tpc # "ok" /\ (NewNode(fs) # None => fs[NewNode(fs)].kids = Free.kids)

\* Copied over directories that are there, and have no links in them, all of the
\* original is there too, as it was, even if they lie around the original.
NoLinks(i) == \A j \in Ids : Within(i, j) => was[j].kind # "link"
CopyMerged ==
  (/\ job.op = "copy" /\ NewNode(was) # None /\ NoLinks(Open(was, NewDir, Last(job.new)))
   /\ tpc = "ok" /\ gone = None) =>
    LET old == Below(was, Old)
        new == Below(fs, Open(was, NewDir, Last(job.new)))
    IN  \A p \in DOMAIN old : p \in DOMAIN new /\ new[p] = old[p]

\* remove removes the whole tree of its argument and nothing else: links are not
\* followed, and nothing is removed if the working directory is in it.
RemoveRight ==
  job.op = "remove" =>
    /\ \A i \in Ids : ~Within(Old, i) => AsItWas(i, DirnameOpen(was, job.old), Last(job.old))
    /\ tpc = "ok" => \A i \in Ids : Within(Old, i) => fs[i].kind = "free"
    /\ tpc = "failed" /\ gone = None => fs = was /\ IsSubdirOfCwd(was, job.old)
    /\ Within(Old, job.cwd) => fs = was \/ gone # None

\* What copy and remove leave behind.
TreesRight == CopyRight /\ CopyMerged /\ RemoveRight
=============================================================================
