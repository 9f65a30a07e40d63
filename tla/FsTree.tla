------------------------------- MODULE FsTree -------------------------------
(****************************************************************************)
(* The tree of inodes of TinKer's file system (src/src/filesys: inode.c,    *)
(* filesys.c and the creating half of fs_open in fs_main.c).                *)
(*                                                                          *)
(* A path is the sequence of names that strtok finds in it.  The list of    *)
(* inodes that down and next link together is a sequence of inodes.  Inodes *)
(* are numbered as __ilid numbers them; nothing removes one.                *)
(****************************************************************************)
EXTENDS Naturals, FiniteSets, Sequences, SequencesExt

CONSTANTS
  Names,
  Nil,          \* the NULL inode
  Modes,        \* what the callers of mknod create
  MaxNodes,     \* bound: inodes, the root included
  MaxDepth      \* bound: names in a path

ASSUME FsAssumption ==
  /\ MaxNodes \in Nat \ {0} /\ MaxDepth \in Nat \ {0}
  /\ Nil \notin Nat /\ "root" \notin Names
  /\ Modes \subseteq {"dir", "chr", "blk", "reg", "fifo"}

VARIABLES
  name, mode, belong,    \* of every inode
  kids,                  \* the list at down, empty when down is the inode itself
  mounted,               \* inodes with a mount
  running                \* FALSE once a NULL inode has been followed

vars == <<name, mode, belong, kids, mounted, running>>

Root  == 0
Nodes == DOMAIN name
Paths == UNION {[1 .. k -> Names] : k \in 0 .. MaxDepth}

\* fs_init, before it makes the first directories.
Init ==
  /\ name = [n \in {Root} |-> "root"]
  /\ mode = [n \in {Root} |-> "dir"]
  /\ belong = [n \in {Root} |-> Root]
  /\ kids = [n \in {Root} |-> <<>>]
  /\ mounted = {} /\ running = TRUE

-----------------------------------------------------------------------------
(* isearch.                                                                 *)
Siblings(n) ==     \* next and all that follow
  LET l == kids[belong[n]] IN
  IF n = Root THEN <<>> ELSE SubSeq(l, 1 + CHOOSE i \in DOMAIN l : l[i] = n, Len(l))

\* Fault: the directory is listed in itself.
Listed_Itself(n) == <<n>> \o (IF kids[n] = <<>> THEN Siblings(n) ELSE kids[n])

(* What ci->down leads to.  That of a childless inode is the inode itself:  *)
(* the search goes on among its siblings.                                   *)
Listed(n) == IF kids[n] = <<>> THEN <<n>> \o Siblings(n) ELSE kids[n]

FirstNamed(l, x) ==
  LET hits == {i \in 1 .. Len(l) : name[l[i]] = x}
  IN IF hits = {} THEN Nil ELSE l[Min(hits)]

\* Fault: a mount does not end the search.
Onward_IntoMounts(s, x) ==
  IF s.at = Nil THEN [s EXCEPT !.fault = TRUE]
                ELSE [s EXCEPT !.at = FirstNamed(Listed(s.at), x)]

(* One name further.  ci->mount is read before ci is compared with NULL.    *)
Onward(s, x) ==
  IF s.stop THEN s
  ELSE IF s.at = Nil THEN [s EXCEPT !.fault = TRUE]
  ELSE IF s.at \in mounted THEN [s EXCEPT !.stop = TRUE]
  ELSE [s EXCEPT !.at = FirstNamed(Listed(s.at), x)]

Start == [at |-> Root, stop |-> FALSE, fault |-> FALSE]

Walk(p) ==
  LET after[k \in 0 .. Len(p)] == IF k = 0 THEN Start ELSE Onward(after[k - 1], p[k])
  IN after[Len(p)]

isearch(p) == Walk(p).at
Absent == [at |-> Nil, stop |-> FALSE, fault |-> FALSE]

-----------------------------------------------------------------------------
(* imknod looks for the whole path (EEXIST) before it looks for the         *)
(* directory, so that ENOENT is left for a missing directory only when      *)
(* following NULL has done no harm.  ENOTDIR is never returned: mode is     *)
(* or-ed with ISA_IFDIR, not and-ed, and any inode gets children.           *)
\* Fault: the path is not looked for first.
MayMake_Anyway(p) == ~Walk(p).fault /\ isearch(Front(p)) # Nil

MayMake(p) == Walk(p) = Absent /\ isearch(Front(p)) # Nil

MkNod(p, m) ==
  LET dir == isearch(Front(p))
      new == Cardinality(Nodes)
      With(f, x) == [n \in Nodes \cup {new} |-> IF n = new THEN x ELSE f[n]]
  IN /\ running /\ p # <<>> /\ new < MaxNodes
     /\ MayMake(p)
     /\ name' = With(name, Last(p))
     /\ mode' = With(mode, m)
     /\ belong' = With(belong, dir)
     /\ kids' = With([kids EXCEPT ![dir] = Append(@, new)], <<>>)
     /\ UNCHANGED <<mounted, running>>

\* Any call with a path that leads through a name that is not there.
FollowNull(p) ==
  /\ running /\ Walk(p).fault
  /\ running' = FALSE
  /\ UNCHANGED <<name, mode, belong, kids, mounted>>

-----------------------------------------------------------------------------
(* mount and umount2.  The mode is and-ed with S_IFBLK and S_IFDIR, of      *)
(* which directories and block devices share a bit.                         *)
Bits(m) == CASE m = "dir" -> {4} [] m = "chr" -> {2} [] m = "blk" -> {2, 4}
             [] m = "reg" -> {8} [] m = "fifo" -> {1}

IsA(n, m) == n # Nil /\ Bits(mode[n]) \cap Bits(m) # {}

mount(special_file, dir) ==
  /\ running /\ IsA(isearch(dir), "dir") /\ isearch(dir) \notin mounted
  /\ IsA(isearch(special_file), "blk")
  /\ mounted' = mounted \cup {isearch(dir)}
  /\ UNCHANGED <<name, mode, belong, kids, running>>

umount2(file) ==
  /\ running /\ isearch(file) \in mounted
  /\ mounted' = mounted \ {isearch(file)}
  /\ UNCHANGED <<name, mode, belong, kids, running>>

Next ==
  \E p \in Paths :
    \/ \E m \in Modes : MkNod(p, m)
    \/ FollowNull(p)
    \/ \E s \in Paths : mount(s, p)
    \/ umount2(p)

Spec == Init /\ [][Next]_vars

-----------------------------------------------------------------------------
(* The inodes that lead to one, from the root, and the path that says so.   *)
Line[n \in Nodes] == IF n = Root THEN <<Root>> ELSE Append(Line[belong[n]], n)
PathOf(n) == [i \in 1 .. Len(Line[n]) - 1 |-> name[Line[n][i + 1]]]

(* Whatever has been created, also in directories that were empty, and      *)
(* whatever is mounted, every inode is found by its path, or else the       *)
(* outermost mounted inode on the way to it: fs_open and fs_ifreg_init      *)
(* assert that what mknod has made is found.                                *)
Findable ==
  \A n \in Nodes :
    LET above == {i \in 1 .. Len(Line[n]) - 1 : Line[n][i] \in mounted}
    IN Walk(PathOf(n)).at = IF above = {} THEN n ELSE Line[n][Min(above)]

(* A search finds another inode than the one whose path it is given only by *)
(* way of a mounted or of a childless inode.                                *)
LookupExact ==
  \A p \in Paths : \/ isearch(p) = Nil
                   \/ PathOf(isearch(p)) = p
                   \/ \E k \in 0 .. Len(p) - 1 :
                        LET d == isearch(SubSeq(p, 1, k)) IN d \in mounted \/ kids[d] = <<>>

(* Nothing is created under a mounted inode, where no path would lead to it *)
(* until it is unmounted.                                                   *)
NothingBelowMounts ==
  [][\A n \in Nodes' \ Nodes : Range(Line'[belong'[n]]) \cap mounted = {}]_vars
=============================================================================
