-------------------------------- MODULE Cpio --------------------------------
(***************************************************************************)
(* cpio -p and cpio -U (app/cpio/main.c, include/sock_read.c): a tree is   *)
(* packed into an archive while others write to its files, the archive is  *)
(* sent through a pipe by a program (xz) that may end at any time, and is  *)
(* unpacked, by reads that wait for the pipe, to a disk that may get full. *)
(*                                                                         *)
(* A tree is the sequence of its entries as the recursion meets them.      *)
(* Bytes are records that say what they are: byte n of the header or the   *)
(* name of an entry, byte n of the data of a file, or a zero.  Data is     *)
(* taken not to look like a header.  (cpio -u reads a file with the same   *)
(* loop: it is the case in which all is in the pipe and its end is known.) *)
(***************************************************************************)
EXTENDS Integers, Sequences, SequencesExt

CONSTANTS
  Trees,        \* sequences of [path, kind, size]; kind is dir, link, file or other
  Disks,        \* the room on the disk of the archive
  Targets,      \* and on the one the new tree is made on, in bytes of files
  Parent(_),    \* the path of the directory a path is in
  HeaderLen,    \* sizeof(struct cpio) [110]
  NameLen(_),   \* strlen+1
  Chunk,        \* the size of a copy [4096]
  Sizes,        \* a size in a header is one of these many [2^32]
  EndLen,       \* the archive is a multiple of this long [512]
  PipeLen,      \* the bytes a pipe holds
  Growth        \* how much may be appended to a file

VARIABLES
  tree,         \* the entries, and for each file its present size
  room,         \* the rest of the disk
  touched,      \* what somebody did to a file meanwhile: [path, how, was]
  ppc, k, pos, st,   \* do_cpio_pack: entry k, how far it is read, the variable st
  archive,      \* fd of the archive: its bytes
  sent, pipe, open,  \* how much of the archive was sent, what waits, and whether more may come
  upc, need, size, entry, \* unpack2: the bytes still to come of one sock_read, size, and namebuf with mode
  got,          \* what the present sock_read has read
  space,        \* the rest of the target disk
  made          \* the new tree: what is at each path

packVars == <<tree, room, touched, ppc, k, pos, st, archive>>
unpackVars == <<sent, pipe, open, upc, need, size, entry, got, space, made>>
cpioVars == <<packVars, unpackVars>>

Nul == [is |-> "nul"]
Nuls(n) == [i \in 1..n |-> Nul]
HeadOf(e) == [i \in 1..HeaderLen |-> [is |-> "head", of |-> e, n |-> i]]
NameOf(e) == [i \in 1..NameLen(e.path) |-> [is |-> "name", of |-> e, n |-> i]]
DataOf(p, from, to) == [i \in 1 .. to - from |-> [is |-> "data", of |-> p, n |-> from + i]]

Fewer(a, b) == IF a < b THEN a ELSE b

-----------------------------------------------------------------------------
(* Packing                                                                 *)

\* What a write leaves: the archive with as much of the bytes as there is room
\* for.  No caller looks at the result.
Write(bytes) ==
  LET n == Fewer(Len(bytes), room)
  IN  archive' = archive \o SubSeq(bytes, 1, n) /\ room' = room - n

\* Slip: the name is padded as if the header were a multiple of 4.
NameFieldEven(l) == ((l + 3) \div 4) * 4

\* l1: header and name together fill a multiple of 4.
NameField(l) == ((l + 1) \div 4) * 4 + 2

\* cpio_entry_add
Entry(e) ==
  LET l == NameLen(e.path)
  IN  HeadOf(e) \o NameOf(e) \o Nuls(NameField(l) - l)

Field(e) == [path |-> e.path, kind |-> e.kind, size |-> IF e.kind = "dir" THEN 0 ELSE e.size % Sizes]

\* The data is padded by the position in the archive.
Pad(n) == (4 - (n % 4)) % 4

Packing(from, to) == ppc = from /\ ppc' = to

IsGone(e) == touched.how = "gone" /\ touched.path = e.path

\* The next entry: fstatat leaves st as it is if the file is not there.
Look ==
  /\ ppc = "next" /\ k <= Len(tree)
  /\ IF IsGone(tree[k]) THEN UNCHANGED st ELSE st' = tree[k]
  /\ IF st'.kind = "other"
     THEN k' = k + 1 /\ UNCHANGED ppc
     ELSE ppc' = "add" /\ UNCHANGED k
  /\ UNCHANGED <<tree, room, touched, pos, archive, unpackVars>>

\* A directory is opened before its header is written, a link or a file after.
Add ==
  LET e == [st EXCEPT !.path = tree[k].path]
      here == ~IsGone(tree[k])
  IN  /\ ppc = "add"
      /\ IF st.kind = "dir" /\ ~here
         THEN ppc' = "failed" /\ UNCHANGED <<k, pos, archive, room>>
         ELSE /\ Write(Entry(Field(e)))
              /\ ppc' = IF ~here THEN "failed" ELSE IF st.kind = "dir" THEN "next" ELSE "data"
              /\ k' = IF st.kind = "dir" THEN k + 1 ELSE k
              /\ pos' = 0
      /\ UNCHANGED <<tree, touched, st, unpackVars>>

\* One turn of the loop of reads; the target of a link is read in one.
Data ==
  LET e == tree[k]
      n == IF e.kind = "link" THEN e.size ELSE Fewer(Chunk, e.size - pos)
  IN  /\ ppc = "data"
      /\ IF pos >= e.size
         THEN ppc' = "pad" /\ UNCHANGED <<pos, archive, room>>
         ELSE /\ Write(DataOf(e.path, pos, pos + n))
              /\ pos' = pos + n
              /\ UNCHANGED ppc
      /\ UNCHANGED <<tree, touched, k, st, unpackVars>>

PadData ==
  /\ Packing("pad", "next")
  /\ Write(Nuls(Pad(Len(archive))))
  /\ k' = k + 1
  /\ UNCHANGED <<tree, touched, pos, st, unpackVars>>

Trailer == [path |-> "TRAILER!!!", kind |-> "none", size |-> 0]

PackEnds ==
  LET e == Entry(Trailer)
  IN  /\ Packing("next", "packed") /\ k > Len(tree)
      /\ Write(e \o Nuls((EndLen - ((Len(archive) + Len(e)) % EndLen)) % EndLen))
      /\ UNCHANGED <<tree, touched, k, pos, st, unpackVars>>

\* Somebody appends to a file, cuts it short, or removes it (what is open can
\* be read on).
Change ==
  /\ ppc \in {"next", "add", "data"} /\ touched.how = "none"
  /\ \E i \in DOMAIN tree :
       LET done(how) == [path |-> tree[i].path, how |-> how, was |-> tree[i].size]
           resize(n) == tree' = [tree EXCEPT ![i].size = n]
       IN  /\ tree[i].kind = "file"
           /\ \/ \E n \in Growth : resize(tree[i].size + n) /\ touched' = done("grew")
              \/ \E n \in 0 .. tree[i].size - 1 : resize(n) /\ touched' = done("cut")
              \/ /\ i > k \/ (i = k /\ ppc # "data")
                 /\ touched' = done("gone") /\ UNCHANGED tree
  /\ UNCHANGED <<room, ppc, k, pos, st, archive, unpackVars>>

-----------------------------------------------------------------------------
(* The pipe                                                                *)

Send ==
  /\ ppc = "packed" /\ open
  /\ \E n \in 1 .. Fewer(PipeLen - Len(pipe), Len(archive) - sent) :
       pipe' = pipe \o SubSeq(archive, sent + 1, sent + n) /\ sent' = sent + n
  /\ UNCHANGED <<packVars, open, upc, need, size, entry, got, space, made>>

\* xz has sent all, or ends early.
Close ==
  /\ ppc = "packed" /\ open
  /\ open' = FALSE
  /\ UNCHANGED <<packVars, sent, pipe, upc, need, size, entry, got, space, made>>

-----------------------------------------------------------------------------
(* Unpacking                                                               *)

\* Slip: the end of the pipe is not looked for.
HungUpNever == FALSE

\* POLLHUP without POLLIN
HungUp == pipe = <<>> /\ ~open

\* sock_read: one turn of its loop.
Receive ==
  /\ upc \notin {"start", "ok", "failed"} /\ need > 0 /\ pipe # <<>>
  /\ LET n == Fewer(need, Len(pipe))
     IN  /\ got' = got \o SubSeq(pipe, 1, n)
         /\ pipe' = SubSeq(pipe, n + 1, Len(pipe))
         /\ need' = need - n
  /\ UNCHANGED <<packVars, sent, open, upc, size, entry, space, made>>

\* sock_read has returned n bytes, which are got; the next one is for m.
Returned(at) == upc = at /\ (need = 0 \/ HungUp)
\* Slip: any bytes will do.
Some == got # <<>>

Whole == need = 0
ReadNext(at, m) == upc' = at /\ need' = m /\ got' = <<>>

-----------------------------------------------------------------------------
(* What the reader makes, and the target disk                              *)

Directory == [kind |-> "dir", data |-> <<>>]
Opened == [kind |-> "file", data |-> <<>>]

\* mkdirat, symlinkat and open make nothing in a directory that is not there,
\* and may fail on a full disk.
Refused(p) == (space = 0 \/ made[Parent(p)].kind # "dir") /\ UNCHANGED made
Make(p, thing) == made[Parent(p)].kind = "dir" /\ made' = [made EXCEPT ![p] = thing]

\* A write to the open file stores what there is room for.
Store(p, bytes) ==
  LET n == Fewer(Len(bytes), space)
  IN  /\ made' = [made EXCEPT ![p].data = @ \o SubSeq(bytes, 1, n)]
      /\ space' = space - n

GiveUp == upc' = "failed" /\ UNCHANGED <<need, got, size, entry, space>>

\* The directory to unpack to is there or is made.
UnpackStart ==
  /\ upc = "start" /\ ppc = "packed"
  /\ \/ /\ made' = [made EXCEPT !["."] = Directory]
        /\ ReadNext("header", HeaderLen)
        /\ UNCHANGED <<size, entry, space>>
     \/ space = 0 /\ GiveUp /\ UNCHANGED made
  /\ UNCHANGED <<packVars, sent, pipe, open>>

\* Slip: so many bytes are passed over as the data has beyond a multiple of 4.
SkipRest(n) == n % 4

\* The reader goes by the size of the data, wherever it began.
Skip(n) == IF n % 4 = 0 THEN 0 ELSE 4 - (n % 4)

Header ==
  /\ Returned("header")
  /\ IF Whole /\ Head(got).is = "head" /\ Head(got).n = 1
     THEN LET e == Head(got).of
          IN  /\ entry' = e /\ size' = e.size
              /\ ReadNext("name", NameField(NameLen(e.path)))
              /\ UNCHANGED space
     ELSE GiveUp
  /\ UNCHANGED <<packVars, sent, pipe, open, made>>

MkDir ==
  /\ entry.kind = "dir"
  /\ Make(entry.path, Directory) \/ Refused(entry.path)
  /\ ReadNext("header", HeaderLen) /\ UNCHANGED <<size, entry, space>>

\* Slip: a file that cannot be made is read all the same.
OpenUnchecked ==
  /\ entry.kind = "file"
  /\ Make(entry.path, Opened) \/ Refused(entry.path)
  /\ ReadNext("data", Fewer(size, Chunk)) /\ UNCHANGED <<size, entry, space>>

\* A file that cannot be made is an error, a directory is not.
OpenFile ==
  /\ entry.kind = "file"
  /\ \/ /\ Make(entry.path, Opened)
        /\ ReadNext("data", Fewer(size, Chunk)) /\ UNCHANGED <<size, entry, space>>
     \/ Refused(entry.path) /\ GiveUp

\* The directory, or the file, is made before its data is read.
Name ==
  /\ Returned("name")
  /\ \/ ~Whole /\ GiveUp /\ UNCHANGED made
     \/ /\ Whole /\ entry.path = "TRAILER!!!"
        /\ upc' = "ok" /\ UNCHANGED <<need, got, size, entry, space, made>>
     \/ Whole /\ MkDir
     \/ /\ Whole /\ entry.kind = "link"
        /\ ReadNext("target", size) /\ UNCHANGED <<size, entry, space, made>>
     \/ Whole /\ OpenFile
  /\ UNCHANGED <<packVars, sent, pipe, open>>

Target ==
  /\ Returned("target")
  /\ \/ /\ Whole
        /\ Make(entry.path, [kind |-> "link", data |-> got])
        /\ ReadNext("pad", Skip(size)) /\ UNCHANGED <<size, entry, space>>
     \/ Whole /\ Refused(entry.path) /\ GiveUp
     \/ ~Whole /\ GiveUp /\ UNCHANGED made
  /\ UNCHANGED <<packVars, sent, pipe, open>>

\* Nobody looks at what write returns: the reader goes on with the next bytes.
DataChunk ==
  /\ Returned("data")
  /\ \/ /\ Whole
        /\ Store(entry.path, got)
        /\ IF size > Chunk
           THEN size' = size - Chunk /\ ReadNext("data", Fewer(size - Chunk, Chunk))
           ELSE UNCHANGED size /\ ReadNext("pad", Skip(size))
        /\ UNCHANGED entry
     \/ ~Whole /\ GiveUp /\ UNCHANGED made
  /\ UNCHANGED <<packVars, sent, pipe, open>>

\* Byte by byte, and nobody asks whether they came.
PadBytes ==
  /\ Returned("pad")
  /\ ReadNext("header", HeaderLen)
  /\ UNCHANGED <<packVars, sent, pipe, open, size, entry, space, made>>

-----------------------------------------------------------------------------
Paths == UNION {{t[i].path : i \in DOMAIN t} : t \in Trees}
Nothing == [kind |-> "none", data |-> <<>>]

CpioInit ==
  /\ tree \in Trees /\ room \in Disks /\ touched = [path |-> "", how |-> "none", was |-> 0]
  /\ ppc = "next" /\ k = 1 /\ pos = 0 /\ st = [path |-> "", kind |-> "dir", size |-> 0]
  /\ archive = <<>>
  /\ sent = 0 /\ pipe = <<>> /\ open = TRUE
  /\ upc = "start" /\ need = 0 /\ size = 0 /\ entry = Trailer /\ got = <<>>
  /\ space \in Targets /\ made = [p \in Paths |-> Nothing]

Pack == Look \/ Add \/ Data \/ PadData \/ PackEnds
Unpack == UnpackStart \/ Receive \/ Header \/ Name \/ Target \/ DataChunk \/ PadBytes
CpioNext == Pack \/ Change \/ Send \/ Close \/ Unpack

\* xz goes on or ends.
CpioFairness == WF_cpioVars(Pack) /\ WF_cpioVars(Unpack) /\ WF_cpioVars(Send \/ Close)

CpioSpec == CpioInit /\ [][CpioNext]_cpioVars /\ CpioFairness

-----------------------------------------------------------------------------
(***************************************************************************)
(* Properties.                                                             *)
(***************************************************************************)

\* What was made at a path is what was packed: the same kind and the same bytes;
\* of a file that grew, as many as before or as there are now.
AsPacked(e) ==
  LET m == made[e.path]
      lengths == IF touched.how = "grew" /\ touched.path = e.path THEN touched.was .. e.size ELSE {e.size}
  IN  m.kind = e.kind /\ (e.kind # "dir" => \E n \in lengths : m.data = DataOf(e.path, 0, n))

\* The entries nothing can be said of: a file that was cut short, and what
\* follows it, whose headers may have been taken for its data.
Swallowed(i) == touched.how = "cut" /\ \E j \in 1..i : tree[j].path = touched.path

\* All that a full target disk may do to an entry: a directory is missing, or the
\* end of a file is.
CutShort(e) ==
  LET m == made[e.path]
  IN  /\ space = 0
      /\ \/ e.kind = "dir" /\ m.kind = "none"
         \/ e.kind = "file" /\ m.kind = "file" /\ m.data = DataOf(e.path, 0, Len(m.data))

\* cpio -U reports success only if the tree is there, whichever file grew or was
\* removed while it was packed, whether the disk of the archive was full (nobody
\* looks at the result of a write), and wherever the pipe broke.  If the target
\* disk got full it reports success too, with files that are cut short: then the
\* reader still was in step, nothing stands where it does not belong, and all
\* links are there.
RightOrNoticed ==
  upc = "ok" => \A i \in DOMAIN tree :
                  \/ tree[i].kind = "other" \/ IsGone(tree[i]) \/ Swallowed(i)
                  \/ AsPacked(tree[i]) \/ CutShort(tree[i])

\* And if nothing of this happened, and no file is too long for its header, it
\* does report success: the three ways of padding agree with the reader's two.
Undisturbed ==
  /\ touched.how = "none" /\ room > 0 /\ space > 0
  /\ \A i \in DOMAIN tree : tree[i].size < Sizes
InStep ==
  /\ ppc = "failed" => touched.how = "gone"
  /\ upc = "failed" /\ Undisturbed => ~open /\ sent < Len(archive)

Faithful == RightOrNoticed /\ InStep

\* Both come to an end.
BothEnd == <>(ppc = "failed" \/ upc \in {"ok", "failed"})
=============================================================================
