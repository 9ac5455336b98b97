-------------------------------- MODULE Scan --------------------------------
(***************************************************************************)
(* Which directories Renzoku watches: Watcher::watchDirectory() and        *)
(* recursiveWatch() (src/watcher.cpp) over Util::listDir() (src/util.cpp), *)
(* when the Watcher is constructed, while the user goes on creating and    *)
(* removing files.                                                         *)
(*                                                                         *)
(* listDir() looks its entries up by name alone, so in the current         *)
(* directory and not in the one it lists; an entry whose name does not     *)
(* exist there keeps the type of the entry before it.                      *)
(***************************************************************************)
EXTENDS Integers, Sequences, FiniteSets

CONSTANTS
  Root,         \* the current directory, which stays
  Entry,        \* everything below it that exists at some time, by path
  Parent,       \* the directory an entry is in
  Name,         \* the last component of its path
  Kind,         \* "dir", "file" or "link", as lstat() reports it
  Dots,         \* the entries "." and ".." of every directory
  Locked,       \* directories opendir() may fail to open
  Initial,      \* what exists when the program starts
  MaxWatches,   \* inotify's max_user_watches
  MaxChanges    \* bound: entries the user creates or removes

ASSUME EntryAssumption == Root \notin Entry /\ Dots \cap (Entry \cup {Root}) = {}
ASSUME TreeAssumption ==
  /\ Parent \in [Entry -> Entry \cup {Root}]
  /\ Kind \in [Entry -> {"dir", "file", "link"}]
  /\ Name \in [Entry -> STRING]
  /\ \A e \in Entry : Parent[e] # Root => Kind[Parent[e]] = "dir"
  /\ \A e, f \in Entry : Parent[e] = Parent[f] /\ Name[e] = Name[f] => e = f
\* Whatever entries one starts from, their parents lead out of them: no cycle.
ASSUME AcyclicAssumption ==
  \A S \in SUBSET Entry : S # {} => \E e \in S : Parent[e] \notin S
ASSUME InitialAssumption ==
  /\ Initial \subseteq Entry /\ Locked \subseteq Entry \cup {Root}
  /\ \A e \in Initial : Parent[e] \in Initial \cup {Root}
ASSUME LimitAssumption == MaxWatches \in Nat /\ MaxChanges \in Nat

VARIABLES
  at,        \* where the scan is; "thrown" is the exception of opendir() or
             \* getcwd(), "closed" the end of the Watcher
  cur,       \* the directory of listDir()
  st,        \* type that st.st_mode holds: "dir" or "other"
  unread,    \* the entries readdir() has not returned yet
  listing,   \* the names listDir() has put in its result
  stack,     \* the calls of recursiveWatch() and what each has still to visit
  watched,   \* the entries with an inotify watch
  full,      \* history: a watch was refused at max_user_watches
  exists,    \* the file system
  stable,    \* history: what has existed all the time
  changes

tree  == <<exists, stable, changes>>
scan  == <<at, cur, st, unread, listing, stack, full>>
svars == <<scan, watched, tree>>

Children(d) == {e \in Entry : Parent[e] = d}
IsDir(d)    == d = Root \/ (d \in exists /\ Kind[d] = "dir")

Frame == [dir : Entry \cup {Root}, rest : Seq(Entry \cup Dots)]
Top   == stack[Len(stack)]

STypeOK ==
  /\ at \in {"start", "list", "read", "visit", "done", "thrown", "closed"}
  /\ cur \in Entry \cup {Root}
  /\ st \in {"dir", "other"}
  /\ unread \subseteq Entry \cup Dots
  /\ listing \in Seq(Entry \cup Dots)
  /\ stack \in Seq(Frame)
  /\ watched \subseteq exists \cup {Root}
  /\ full \in BOOLEAN
  /\ exists \subseteq Entry
  /\ stable \subseteq exists
  /\ changes \in 0..MaxChanges
  /\ at = "visit" => stack # <<>>

SInit ==
  /\ at = "start" /\ cur = Root /\ st = "dir"
  /\ unread = {} /\ listing = <<>> /\ stack = <<>>
  /\ watched = {} /\ full = FALSE
  /\ exists = Initial /\ stable = Initial /\ changes = 0

-----------------------------------------------------------------------------
(* listDir()                                                               *)

\* A directory is opened.  What a failed lstat() leaves in st is arbitrary.
OpenDir ==
  /\ at = "list"
  /\ \/ IsDir(cur) /\ at' = "read" /\ unread' = Dots \cup (Children(cur) \cap exists)
     \/ IsDir(cur) /\ cur \in Locked /\ at' = "thrown" /\ UNCHANGED unread
     \/ ~IsDir(cur) /\ at' = "visit" /\ UNCHANGED unread
     \/ cur \notin exists \cup {Root} /\ at' = "thrown" /\ UNCHANGED unread
  /\ st' = "dir"
  /\ listing' = <<>>
  /\ UNCHANGED <<cur, stack, watched, full, tree>>

\* lstat() of the bare name: what has that name in the current directory.
InCwd(x) == {e \in exists : Parent[e] = Root /\ Name[e] = Name[x]}

\* Mutant: an entry that lstat() does not find is no directory.
StatFound(x) ==
  IF x \in Dots \/ \E e \in InCwd(x) : Kind[e] = "dir" THEN "dir" ELSE "other"

StatOf(x) ==
  IF x \in Dots \/ \E e \in InCwd(x) : Kind[e] = "dir" THEN "dir"
  ELSE IF InCwd(x) = {} THEN st ELSE "other"

\* Mutant: listDir() is asked for all entries.
ReadAll(x) ==
  /\ at = "read" /\ x \in unread
  /\ unread' = unread \ {x}
  /\ st' = StatOf(x)
  /\ listing' = Append(listing, x)
  /\ UNCHANGED <<at, cur, stack, watched, full, tree>>

ReadEntry(x) ==
  /\ at = "read" /\ x \in unread
  /\ unread' = unread \ {x}
  /\ st' = StatOf(x)
  /\ listing' = IF st' = "dir" THEN Append(listing, x) ELSE listing
  /\ UNCHANGED <<at, cur, stack, watched, full, tree>>

CloseDir ==
  /\ at = "read" /\ unread = {}
  /\ stack' = Append(stack, [dir |-> cur, rest |-> listing])
  /\ at' = "visit"
  /\ UNCHANGED <<cur, st, unread, listing, watched, full, tree>>

-----------------------------------------------------------------------------
(* watchDirectory() and recursiveWatch()                                   *)

\* inotify_add_watch(), whose failure nobody notices.
AddWatch(x) ==
  IF x \notin exists \cup {Root} THEN UNCHANGED <<watched, full>>
  ELSE \/ /\ Cardinality(watched) < MaxWatches
          /\ watched' = watched \cup {x} /\ UNCHANGED full
       \/ /\ Cardinality(watched) >= MaxWatches
          /\ full' = (full \/ x \notin watched) /\ UNCHANGED watched

\* watchDirectory(): the current directory is watched, then listed.  cwd() is
\* called for each, and throws if getcwd() fails.
WatchRoot ==
  /\ at = "start"
  /\ \/ at' = "thrown" /\ UNCHANGED <<watched, full>>
     \/ at' \in {"list", "thrown"} /\ AddWatch(Root)
  /\ UNCHANGED <<cur, st, unread, listing, stack, tree>>

Advance == stack' = [stack EXCEPT ![Len(stack)].rest = Tail(@)]

\* Mutant: "." and ".." are directories like any other.
SkipNothing ==
  /\ at = "visit" /\ Top.rest # <<>> /\ Head(Top.rest) \in Dots
  /\ Advance
  /\ cur' = Top.dir /\ at' = "list"
  /\ UNCHANGED <<st, unread, listing, watched, full, tree>>

Skip ==
  /\ at = "visit" /\ Top.rest # <<>> /\ Head(Top.rest) \in Dots
  /\ Advance
  /\ UNCHANGED <<at, cur, st, unread, listing, watched, full, tree>>

\* Mutant: the loop over the names does not go on to the next one.
VisitSame ==
  /\ at = "visit" /\ Top.rest # <<>> /\ Head(Top.rest) \notin Dots
  /\ AddWatch(Head(Top.rest))
  /\ cur' = Head(Top.rest) /\ at' = "list"
  /\ UNCHANGED <<st, unread, listing, stack, tree>>

Visit ==
  /\ at = "visit" /\ Top.rest # <<>> /\ Head(Top.rest) \notin Dots
  /\ AddWatch(Head(Top.rest))
  /\ Advance
  /\ cur' = Head(Top.rest) /\ at' = "list"
  /\ UNCHANGED <<st, unread, listing, tree>>

\* Mutant: the outermost call does not return.
ScanReturnsNowhere ==
  /\ at = "visit" /\ Top.rest = <<>>
  /\ stack' = SubSeq(stack, 1, Len(stack) - 1)
  /\ UNCHANGED <<at, cur, st, unread, listing, watched, full, tree>>

ScanReturns ==
  /\ at = "visit" /\ Top.rest = <<>>
  /\ stack' = SubSeq(stack, 1, Len(stack) - 1)
  /\ at' = IF Len(stack) = 1 THEN "done" ELSE "visit"
  /\ UNCHANGED <<cur, st, unread, listing, watched, full, tree>>

\* ~Watcher(): removeAllWatches().
Close ==
  /\ at = "done" /\ at' = "closed"
  /\ watched' = {}
  /\ UNCHANGED <<cur, st, unread, listing, stack, full, tree>>

Scan ==
  \/ WatchRoot
  \/ OpenDir \/ (\E x \in unread : ReadEntry(x)) \/ CloseDir
  \/ Skip \/ Visit \/ ScanReturns

-----------------------------------------------------------------------------
(* The user.  readdir() may or may not see a change of the directory it is *)
(* reading; the watch of a removed entry goes with it.                     *)

Count == changes < MaxChanges /\ changes' = changes + 1

Appear(e) ==
  /\ Count
  /\ e \notin exists /\ Parent[e] \in exists \cup {Root}
  /\ exists' = exists \cup {e}
  /\ unread' \in {unread} \cup (IF at = "read" /\ Parent[e] = cur THEN {unread \cup {e}} ELSE {})
  /\ UNCHANGED <<at, cur, st, listing, stack, full, watched, stable>>

Vanish(e) ==
  /\ Count
  /\ e \in exists /\ Children(e) \cap exists = {}
  /\ exists' = exists \ {e} /\ stable' = stable \ {e} /\ watched' = watched \ {e}
  /\ unread' \in {unread, unread \ {e}}
  /\ UNCHANGED <<at, cur, st, listing, stack, full>>

SNext == Scan \/ Close \/ \E e \in Entry : Appear(e) \/ Vanish(e)

SSpec == SInit /\ [][SNext]_svars

SFairSpec == SSpec /\ WF_svars(Scan)

-----------------------------------------------------------------------------
(* Properties.                                                             *)

\* Something next to d, or d itself, has the name of a file at the top.
Shadowed(d) ==
  /\ Parent[d] # Root
  /\ \E e \in Children(Parent[d]), f \in Children(Root) :
       Name[e] = Name[f] /\ Kind[f] # "dir"

\* The entries with no shadowed name on the way to them.
Clear ==
  UNION {S \in SUBSET Entry : \A e \in S : ~Shadowed(e) /\ Parent[e] \in S \cup {Root}}

\* Although listDir() looks names up in the wrong directory, every directory
\* that is there all the time ends up watched, unless a name on its path is
\* shadowed or inotify refused a watch, whatever else the user changes.
WatchedUnlessShadowed ==
  at = "done" /\ ~full => \A d \in stable \cap Clear : Kind[d] = "dir" => d \in watched

\* The calls of recursiveWatch() are nested like the directories: neither "."
\* nor ".." nor a link or file taken for a directory leads into a cycle.
Nested ==
  /\ stack # <<>> => stack[1].dir = Root
  /\ \A n \in 1..Len(stack) - 1 : stack[n + 1].dir \in Children(stack[n].dir)

\* Although listDir() looks names up in the wrong directory and keeps old types
\* in st, it takes no file or link for a directory, to be watched, whose name a
\* file or link at the top has had all the time, whatever the order of
\* readdir() and whatever else the user changes: only other names are confused.
FilesUnwatched ==
  \A e \in watched \ {Root} : Kind[e] # "dir" =>
    ~\E f \in stable \cap Children(Root) : Name[f] = Name[e] /\ Kind[f] # "dir"

\* The scan comes to an end.
ScanEnds == at \in {"start", "list"} ~> at \in {"done", "thrown"}

\* man/renzoku.1: commands are performed "when underlying files change": every
\* directory that was there all the time is watched.
AllWatched ==
  at = "done" /\ ~full => \A d \in stable : Kind[d] = "dir" => d \in watched
=============================================================================
