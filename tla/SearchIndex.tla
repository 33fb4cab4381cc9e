------------------------------ MODULE SearchIndex ------------------------------
(***************************************************************************)
(* The search index of a node.  StoreTrans::Commit writes the records      *)
(* (CommitData) and then their documents (AddToCache), each into the       *)
(* database of Xapian for the language of the record.  Documents are in    *)
(* the hands of the process until that database is committed: by itself    *)
(* (its flush threshold), by a command, or at the end of the process.      *)
(* Searches see what was committed, and then read the records they found.  *)
(* Only the tool zpds_xapindex, run on the data of a node that is down,    *)
(* makes an index anew: one thread reads the records into a queue and      *)
(* others make documents of them, each in a database of its own, which     *)
(* are merged in the end.                                                  *)
(*                                                                         *)
(* Abstractions: a record is its version and its language, a document the  *)
(* version it was made of; what is found is every document of a language;  *)
(* the commits of the databases of all languages are one step; the name of *)
(* an item is reserved while it is committed (ManageData), and a slave     *)
(* commits in one thread; a transaction is of one record.                  *)
(***************************************************************************)
EXTENDS Naturals, Sequences, FiniteSets

CONSTANTS
  Item, Lang,      \* ids of records and their languages
  Worker,          \* threads that commit
  Indexer,         \* threads of zpds_xapindex
  NoItem,          \* none
  MaxQueue,        \* ZPDS_MAX_QUEUE_SIZE
  MaxChange, MaxCrash, MaxCommand, MaxRebuild, MaxThrow   \* bounds

ASSUME SearchIndexAssumption ==
  /\ NoItem \notin Item /\ IsFiniteSet(Item) /\ Item # {} /\ Lang # {}
  /\ MaxQueue \in Nat \ {0}
  /\ {MaxChange, MaxCrash, MaxCommand, MaxRebuild, MaxThrow} \subseteq Nat

VARIABLES
  record,        \* record[i]: version and language of a record, version 0 before it is there
  task,          \* task[w]: what worker w commits, and where it is
  writer,        \* writer[l][i]: version of the document of i for l, as the process has it, or 0
  disk,          \* disk[l][i]: the same, committed
  force_commit,  \* SharedTable::force_commit
  no_xapian,     \* SharedTable::no_xapian
  search,        \* the language and the documents that a search has found
  up,            \* the server runs
  tool,          \* where the tool is: "off", "read", "drain", "join"
  unread,        \* records the tool has yet to read
  queue,         \* its queue of records
  hand,          \* hand[x]: the record its thread x is at
  shards,        \* the documents its threads have made
  missed,        \* records whose last change has not reached the index, and will not
  asked,         \* asked[l][i]: the documents there were at the last command to commit
  bounds         \* crashes, commands, rebuilds and exceptions so far

server == <<record, task, writer, force_commit, no_xapian, up>>
rebuild == <<tool, unread, queue, hand, shards>>
vars == <<server, rebuild, disk, search, missed, asked, bounds>>

Version == [version : Nat, lang : Lang]
Task == [pc : {"idle", "index", "flag", "clear", "flush"}, item : Item \cup {NoItem}, new : Version]
Docs == [Lang -> [Item -> Nat]]
Search == [pc : {"idle", "found"}, lang : Lang, found : [Item -> Nat]]

NoDocs == [l \in Lang |-> [i \in Item |-> 0]]
Nothing == [version |-> 0, lang |-> CHOOSE l \in Lang : TRUE]
Idle == [pc |-> "idle", item |-> NoItem, new |-> Nothing]
NoSearch == [pc |-> "idle", lang |-> Nothing.lang, found |-> [i \in Item |-> 0]]

Init ==
  /\ record = [i \in Item |-> Nothing] /\ task = [w \in Worker |-> Idle]
  /\ writer = NoDocs /\ disk = NoDocs
  /\ force_commit = FALSE /\ no_xapian = FALSE
  /\ search = NoSearch /\ up = TRUE
  /\ tool = "off" /\ unread = {} /\ queue = << >>
  /\ hand = [x \in Indexer |-> NoItem] /\ shards = NoDocs
  /\ missed = {} /\ asked = NoDocs
  /\ bounds = [crashes |-> 0, commands |-> 0, rebuilds |-> 0, throws |-> 0]

Versions == LET sum[S \in SUBSET Item] ==
                  IF S = {} THEN 0
                  ELSE LET i == CHOOSE i \in S : TRUE IN record[i].version + sum[S \ {i}]
            IN sum[Item]

-----------------------------------------------------------------------------
At(w, step) == task' = [task EXCEPT ![w].pc = step]

\* Mutant of Store: a failed write is not noticed.
StoreUnnoticed(w, i, l) ==
  /\ up /\ task[w].pc = "idle" /\ \A v \in Worker : task[v].item # i
  /\ Versions < MaxChange
  /\ LET new == [version |-> record[i].version + 1, lang |-> l] IN
       /\ record' \in {record, [record EXCEPT ![i] = new]}
       /\ task' = [task EXCEPT ![w] = [pc |-> "index", item |-> i, new |-> new]]
  /\ UNCHANGED <<writer, force_commit, no_xapian, up, rebuild, disk, search, missed, asked, bounds>>

\* CommitData writes a record, in a language of its own or another than before.
Store(w, i, l) ==
  /\ up /\ task[w].pc = "idle" /\ \A v \in Worker : task[v].item # i
  /\ Versions < MaxChange
  /\ LET new == [version |-> record[i].version + 1, lang |-> l] IN
       /\ record' = [record EXCEPT ![i] = new]
       /\ task' = [task EXCEPT ![w] = [pc |-> "index", item |-> i, new |-> new]]
  /\ UNCHANGED <<writer, force_commit, no_xapian, up, rebuild, disk, search, missed, asked, bounds>>

\* The document of record i, put in its place.
WithDoc(docs, i, new) == [docs EXCEPT ![new.lang][i] = new.version]

\* AddToCache replaces the document of the record, in its language.
Index(w) ==
  /\ task[w].pc = "index"
  /\ LET i == task[w].item IN
       IF no_xapian
       THEN missed' = missed \cup {i} /\ UNCHANGED writer
       ELSE writer' = WithDoc(writer, i, task[w].new) /\ missed' = missed \ {i}
  /\ At(w, "flag")
  /\ UNCHANGED <<record, force_commit, no_xapian, up, rebuild, disk, search, asked, bounds>>

\* Xapian throws, at a term that is too long or a full disk.
Throws == bounds.throws < MaxThrow /\ bounds' = [bounds EXCEPT !.throws = @ + 1]

\* replace_document throws, which ends the task without a look at the flag: the
\* change has no document, and what Xapian had in hand of its language may be gone.
IndexThrows(w) ==
  LET i == task[w].item
      l == task[w].new.lang
  IN
  /\ task[w].pc = "index" /\ ~no_xapian /\ Throws
  /\ task' = [task EXCEPT ![w] = Idle]
  /\ \/ missed' = missed \cup {i} /\ UNCHANGED <<writer, asked>>
     \/ /\ missed' = missed \cup {i} \cup {j \in Item : writer[l][j] # disk[l][j]}
        /\ writer' = [writer EXCEPT ![l] = disk[l]]
        /\ asked' = [asked EXCEPT ![l] = disk[l]]
  /\ UNCHANGED <<record, force_commit, no_xapian, up, rebuild, disk, search>>

\* Mutant of Flag: the flag is cleared after the commit of the databases.
FlagFlushFirst(w) ==
  \/ /\ task[w].pc = "flag"
     /\ IF force_commit THEN At(w, "clear") ELSE task' = [task EXCEPT ![w] = Idle]
     /\ UNCHANGED <<force_commit, disk>>
  \/ /\ task[w].pc = "clear" /\ At(w, "flush")
     /\ disk' = writer /\ UNCHANGED force_commit
  \/ /\ task[w].pc = "flush" /\ task' = [task EXCEPT ![w] = Idle]
     /\ force_commit' = FALSE /\ UNCHANGED disk

\* The end of AddToCache: the flag is read, cleared, and the databases committed.
Flag(w) ==
  \/ /\ task[w].pc = "flag"
     /\ IF force_commit THEN At(w, "clear") ELSE task' = [task EXCEPT ![w] = Idle]
     /\ UNCHANGED <<force_commit, disk>>
  \/ /\ task[w].pc = "clear" /\ At(w, "flush")
     /\ force_commit' = FALSE /\ UNCHANGED disk
  \/ /\ task[w].pc = "flush" /\ task' = [task EXCEPT ![w] = Idle]
     /\ disk' = writer /\ UNCHANGED force_commit

Finish(w) ==
  /\ Flag(w)
  /\ UNCHANGED <<record, writer, no_xapian, up, rebuild, search, missed, asked, bounds>>

\* Xapian commits a database when it has enough in hand.
AutoFlush(l) ==
  /\ up /\ disk[l] # writer[l]
  /\ disk' = [disk EXCEPT ![l] = writer[l]]
  /\ UNCHANGED <<server, rebuild, search, missed, asked, bounds>>

\* The commands: "commit" (with the next change), "commitnow", "noxapian".
Command ==
  /\ up /\ bounds.commands < MaxCommand
  /\ bounds' = [bounds EXCEPT !.commands = @ + 1]
  /\ \/ /\ force_commit' = TRUE /\ asked' = writer
        /\ UNCHANGED <<disk, no_xapian>>
     \/ /\ disk' = writer /\ asked' = writer
        /\ UNCHANGED <<force_commit, no_xapian>>
     \/ /\ no_xapian' = TRUE
        /\ UNCHANGED <<disk, force_commit, asked>>
  /\ UNCHANGED <<record, task, writer, up, rebuild, search, missed>>

-----------------------------------------------------------------------------
\* A search opens the index of a language, which is then a snapshot for it.
Open(l) ==
  /\ up /\ search.pc = "idle"
  /\ search' = [pc |-> "found", lang |-> l, found |-> disk[l]]
  /\ UNCHANGED <<server, rebuild, disk, missed, asked, bounds>>

\* It reads the records of what it found, and answers.
Populate ==
  /\ search.pc = "found"
  /\ search' = NoSearch
  /\ UNCHANGED <<server, rebuild, disk, missed, asked, bounds>>

-----------------------------------------------------------------------------
\* Records whose document is not in the language they are in, or not the last.
Behind(docs) == {i \in Item : docs[record[i].lang][i] # record[i].version}

Down == /\ up' = FALSE /\ force_commit' = FALSE /\ no_xapian' = FALSE
        /\ search' = NoSearch /\ task' = [w \in Worker |-> Idle]
        /\ asked' = NoDocs

\* The server dies: what Xapian had in hand is gone, and nothing is replayed.
Crash ==
  /\ up /\ bounds.crashes < MaxCrash
  /\ bounds' = [bounds EXCEPT !.crashes = @ + 1]
  /\ Down
  /\ missed' = Behind(disk)
  /\ writer' = disk
  /\ UNCHANGED <<record, rebuild, disk>>

\* The server ends: the databases are closed, and committed with that.
Stop ==
  /\ up /\ bounds.rebuilds < MaxRebuild /\ \A w \in Worker : task[w].pc = "idle"
  /\ Down
  /\ disk' = writer
  /\ UNCHANGED <<record, writer, rebuild, missed, bounds>>

Start ==
  /\ ~up /\ tool = "off"
  /\ up' = TRUE /\ writer' = disk
  /\ UNCHANGED <<record, task, force_commit, no_xapian, rebuild, disk, search, missed, asked, bounds>>

-----------------------------------------------------------------------------
\* The tool is started on the data of a server that is down.
Begin ==
  /\ ~up /\ tool = "off" /\ bounds.rebuilds < MaxRebuild
  /\ bounds' = [bounds EXCEPT !.rebuilds = @ + 1]
  /\ tool' = "read" /\ unread' = {i \in Item : record[i].version > 0}
  /\ queue' = << >> /\ shards' = NoDocs /\ UNCHANGED hand
  /\ UNCHANGED <<server, disk, search, missed, asked>>

\* Its main thread reads the next record, unless the queue is full.
Read ==
  /\ tool = "read" /\ unread # {} /\ Len(queue) < MaxQueue
  /\ LET i == CHOOSE i \in unread : TRUE IN
       queue' = Append(queue, i) /\ unread' = unread \ {i}
  /\ UNCHANGED <<tool, hand, shards, server, disk, search, missed, asked, bounds>>

\* All are read: it waits for the queue to be empty, and tells the threads to stop.
Drain ==
  /\ \/ tool = "read" /\ unread = {} /\ tool' = "drain"
     \/ tool = "drain" /\ queue = << >> /\ tool' = "join"
  /\ UNCHANGED <<unread, queue, hand, shards, server, disk, search, missed, asked, bounds>>

\* A thread takes a record, while it is not told to stop.
Pop(x) ==
  /\ tool \in {"read", "drain"} /\ hand[x] = NoItem /\ queue # << >>
  /\ hand' = [hand EXCEPT ![x] = Head(queue)] /\ queue' = Tail(queue)
  /\ UNCHANGED <<tool, unread, shards, server, disk, search, missed, asked, bounds>>

\* It writes the document.
WriteDoc(x) ==
  /\ hand[x] # NoItem
  /\ shards' = WithDoc(shards, hand[x], record[hand[x]])
  /\ hand' = [hand EXCEPT ![x] = NoItem]
  /\ UNCHANGED <<tool, unread, queue, server, disk, search, missed, asked, bounds>>

\* A thread throws at a document, which ends the process: the index stays as it was.
ToolDies ==
  /\ Throws /\ \E x \in Indexer : hand[x] # NoItem
  /\ tool' = "off" /\ hand' = [x \in Indexer |-> NoItem]
  /\ UNCHANGED <<unread, queue, shards, server, disk, search, missed, asked>>

\* Mutant of Merge: the threads are not waited for.
MergeNoJoin ==
  /\ tool = "join"
  /\ disk' = shards /\ missed' = {}
  /\ tool' = "off"
  /\ UNCHANGED <<unread, queue, hand, shards, server, search, asked, bounds>>

\* The threads have ended, and their databases are merged into the new index.
Merge ==
  /\ tool = "join" /\ \A x \in Indexer : hand[x] = NoItem
  /\ disk' = shards /\ missed' = {}
  /\ tool' = "off"
  /\ UNCHANGED <<unread, queue, hand, shards, server, search, asked, bounds>>

Tool == Read \/ Drain \/ Merge \/ ToolDies \/ \E x \in Indexer : Pop(x) \/ WriteDoc(x)

Next ==
  \/ \E w \in Worker : Index(w) \/ IndexThrows(w) \/ Finish(w) \/ \E i \in Item, l \in Lang : Store(w, i, l)
  \/ \E l \in Lang : AutoFlush(l) \/ Open(l)
  \/ Populate \/ Command
  \/ Crash \/ Stop \/ Start
  \/ Begin \/ Tool

Spec == Init /\ [][Next]_vars

-----------------------------------------------------------------------------
\* The kinds of values the state holds.
TypeOK ==
  /\ record \in [Item -> Version] /\ task \in [Worker -> Task] /\ search \in Search
  /\ writer \in Docs /\ disk \in Docs /\ shards \in Docs /\ asked \in Docs
  /\ force_commit \in BOOLEAN /\ no_xapian \in BOOLEAN /\ up \in BOOLEAN
  /\ tool \in {"off", "read", "drain", "join"}
  /\ unread \subseteq Item /\ queue \in Seq(Item) /\ Len(queue) <= MaxQueue
  /\ hand \in [Indexer -> Item \cup {NoItem}]
  /\ missed \subseteq Item

\* What is on its way from a commit to the index.
OnItsWay(i) == \E w \in Worker : task[w].pc = "index" /\ task[w].item = i

\* The index has the last version of each record, in its language, unless a commit
\* has yet to write it, Xapian threw at it, the server died with the document in
\* hand or the updates were turned off by command.  An index that was made anew has
\* them all.
IndexIsCurrent ==
  \A i \in Item \ missed : OnItsWay(i) \/ i \notin Behind(IF up THEN writer ELSE disk)

\* What a search finds is there when it reads it, in the version that it found or
\* a later one, whatever was committed, lost or made anew in between.
FoundIsStored ==
  \A i \in Item : search.found[i] <= record[i].version

\* When a command to commit has been obeyed, every document that was there when it
\* was given can be found, also if it came while a worker cleared the flag.
CommandIsObeyed ==
  (~force_commit /\ \A w \in Worker : task[w].pc # "flush") =>
    \A l \in Lang, i \in Item : asked[l][i] <= disk[l][i]

\* A record is found in its language alone.  SearchIndexFails.cfg finds one with two
\* documents after its language was changed.
OneLanguage ==
  \A i \in Item, l \in Lang : disk[l][i] # 0 => l = record[i].lang \/ OnItsWay(i)

\* Every change reaches the index.  SearchIndexFails.cfg finds a record that is stored
\* and has no document since Xapian threw at it: no crash and no command is needed.
NothingIsMissed == missed = {}
=============================================================================
