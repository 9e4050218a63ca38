------------------------------- MODULE RQueue -------------------------------
(***************************************************************************)
(* The ring buffer of src/index/libhl/rqueue.c: a circle of pages and one  *)
(* page outside it, the reader page.  A reader swaps its page for the head *)
(* of the circle; a writer claims the page at the tail.  read_sync keeps   *)
(* out other readers (and, in overwrite mode, writers that move the head), *)
(* write_sync keeps out other writers; a reader and a writer run against   *)
(* each other.                                                             *)
(*                                                                         *)
(* A step is one access to what the other side changes; accesses to what   *)
(* the lock in hand protects ride along: head, reader and the links for a  *)
(* reader, tail, commit, writes and num_writers for a writer.              *)
(***************************************************************************)
EXTENDS Integers, SequencesExt

CONSTANTS
  Readers, Writers,      \* threads
  Size,                  \* size given to rqueue_create
  MaxRetries,            \* RQUEUE_MAX_RETRIES, which is even
  MaxWrites, MaxReads,   \* bounds on the calls
  Nil                    \* NULL

ASSUME RQueueAssumption ==
  /\ Readers \cap Writers = {}
  /\ Size \in Nat /\ Size > 1
  /\ MaxRetries \in Nat /\ MaxRetries % 2 = 0
  /\ MaxWrites \in Nat /\ MaxReads \in Nat

Threads == Readers \cup Writers
Pages == 0 .. Size + 1

VARIABLES
  q,      \* the fields of rqueue_t; next, prev and value are those of the pages
  th,     \* per thread: where it is, and its local variables
  log     \* history: calls begun, values accepted and taken in order, values
          \* freed, and whether a writer used a page a reader had swapped out

vars == <<q, th, log>>

Link(p) == [to |-> p, flag |-> FALSE]
Flagged(p) == [to |-> p, flag |-> TRUE]     \* RQUEUE_FLAG_HEAD

Idle == [pc |-> "idle", retries |-> 0, temp |-> Nil, commit |-> Nil, next |-> Nil,
         head |-> Nil, tail |-> Nil, old |-> Nil, value |-> Nil]

\* Size + 1 pages in a circle and the reader page.
rqueue_create(mode) ==
  [mode |-> mode, head |-> 0, tail |-> 0, commit |-> 0, reader |-> Size + 1,
   next |-> [p \in Pages |-> CASE p < Size -> Link(p + 1)
                               [] p = Size -> Flagged(0)
                               [] p = Size + 1 -> Link(0)],
   prev |-> [p \in Pages |-> IF p \in {0, Size + 1} THEN Size ELSE p - 1],
   value |-> [p \in Pages |-> Nil],
   writes |-> 0, reads |-> 0, read_sync |-> 0, write_sync |-> 0, num_writers |-> 0]

Init ==
  /\ \E mode \in {"blocking", "overwrite"} : q = rqueue_create(mode)
  /\ th = [t \in Threads |-> Idle]
  /\ log = [writes |-> 0, reads |-> 0, accepted |-> <<>>, taken |-> <<>>, freed |-> {},
            stale |-> FALSE]

At(t, l) == th[t].pc = l
Goto(t, l, locals) == th' = [th EXCEPT ![t] = locals @@ [@ EXCEPT !.pc = l]]
Return(t) == th' = [th EXCEPT ![t] = Idle]

\* The head, commit and tail have been read one after the other.
rqueue_isempty(h, c, t) == q.reader = c \/ (h = t /\ c # t) \/ q.writes = 0

-----------------------------------------------------------------------------
(* rqueue_read; retries counts the turns of its loop.                       *)

rqueue_read(t) ==
  /\ At(t, "idle") /\ log.reads < MaxReads
  /\ log' = [log EXCEPT !.reads = @ + 1]
  /\ Goto(t, "read", <<>>)
  /\ UNCHANGED q

\* The next turn of the loop, or NULL is returned.
ReadAgain(t) ==
  LET i == th[t].retries + 1
  IN IF i < MaxRetries THEN Goto(t, "read", [retries |-> i]) ELSE Return(t)

\* With the lock the head, head->next and commit are read.
read_lock(t) ==
  /\ At(t, "read")
  /\ IF q.read_sync = 1 THEN ReadAgain(t) /\ UNCHANGED q
     ELSE /\ q' = [q EXCEPT !.read_sync = 1]
          /\ Goto(t, "empty", [commit |-> q.commit, next |-> q.next[q.head].to])
  /\ UNCHANGED log

GiveUp(t) == q' = [q EXCEPT !.read_sync = 0] /\ ReadAgain(t)

\* reader == commit with the commit read before, then that of rqueue_isempty.
read_commit(t) ==
  /\ At(t, "empty")
  /\ IF q.reader = th[t].commit THEN GiveUp(t)
     ELSE Goto(t, "emptyTail", [commit |-> q.commit]) /\ UNCHANGED q
  /\ UNCHANGED log

read_tail(t) ==
  /\ At(t, "emptyTail")
  /\ Goto(t, "connect", [tail |-> q.tail])
  /\ UNCHANGED <<q, log>>

\* Variant: the link to the new head is not flagged.
read_connect_NoFlag(t) ==
  /\ At(t, "connect")
  /\ IF rqueue_isempty(q.head, th[t].commit, th[t].tail) THEN GiveUp(t)
     ELSE /\ q' = [q EXCEPT !.next[q.reader] = Link(th[t].next), !.prev[q.reader] = q.prev[q.head]]
          /\ Goto(t, "swap", [old |-> q.next[q.reader]])
  /\ UNCHANGED log

\* Not empty: the reader page is connected to the page after the head.
read_connect(t) ==
  /\ At(t, "connect")
  /\ IF rqueue_isempty(q.head, th[t].commit, th[t].tail) THEN GiveUp(t)
     ELSE /\ q' = [q EXCEPT !.next[q.reader] = Flagged(th[t].next),
                            !.prev[q.reader] = q.prev[q.head]]
          /\ Goto(t, "swap", [old |-> q.next[q.reader]])
  /\ UNCHANGED log

\* The page before the head is connected to the reader page; if it does not
\* lead to the head the reader page is disconnected again.
read_swap(t) ==
  LET last == q.prev[q.head] IN
  /\ At(t, "swap")
  /\ IF q.next[last] = Flagged(q.head)
     THEN q' = [q EXCEPT !.next[last] = Link(q.reader)] /\ Goto(t, "head", <<>>)
     ELSE q' = [q EXCEPT !.next[q.reader] = th[t].old, !.read_sync = 0] /\ ReadAgain(t)
  /\ UNCHANGED log

read_head(t) ==
  /\ At(t, "head")
  /\ q' = [q EXCEPT !.head = th[t].next]
  /\ Goto(t, "reader", [head |-> q.head])
  /\ UNCHANGED log

\* The old head is the new reader page.
read_reader(t) ==
  /\ At(t, "reader")
  /\ q' = [q EXCEPT !.prev[th[t].next] = q.reader, !.reader = th[t].head]
  /\ Goto(t, "value", <<>>)
  /\ UNCHANGED log

read_value(t) ==
  /\ At(t, "value")
  /\ IF q.value[q.reader] = Nil THEN GiveUp(t)
     ELSE Goto(t, "clear", [value |-> q.value[q.reader]]) /\ UNCHANGED q
  /\ UNCHANGED log

\* The value is cleared unless it has changed, and returned.
read_clear(t) ==
  /\ At(t, "clear")
  /\ q' = [q EXCEPT !.value[q.reader] = IF @ = th[t].value THEN Nil ELSE @,
                    !.reads = @ + 1, !.read_sync = 0]
  /\ log' = [log EXCEPT !.taken = Append(@, th[t].value)]
  /\ Return(t)

-----------------------------------------------------------------------------
(* rqueue_write.                                                            *)

\* Values are numbered in the order of the calls.
rqueue_write(t) ==
  /\ At(t, "idle") /\ log.writes < MaxWrites
  /\ log' = [log EXCEPT !.writes = @ + 1]
  /\ Goto(t, "lock", [value |-> log.writes + 1])
  /\ UNCHANGED q

write_lock(t) ==
  /\ At(t, "lock") /\ q.write_sync = 0
  /\ q' = [q EXCEPT !.write_sync = 1, !.num_writers = @ + 1]
  /\ Goto(t, "write", <<>>)
  /\ UNCHANGED log

write_next(t) ==
  /\ At(t, "write")
  /\ Goto(t, "writeHead", [temp |-> q.tail, next |-> q.next[q.tail].to])
  /\ UNCHANGED <<q, log>>

Unlocked(x) == [x EXCEPT !.num_writers = @ - 1, !.write_sync = 0]

\* Let go of the lock and try again, or report a full buffer.  A turn of the
\* loop counts twice: here and in its condition.
Retry(t, x) ==
  /\ q' = Unlocked(x)
  /\ IF th[t].retries + 1 < MaxRetries THEN Goto(t, "lock", [retries |-> th[t].retries + 2])
     ELSE Return(t)

\* continue, with the lock: only the condition of the loop counts.
Continue(t, x) ==
  IF th[t].retries < MaxRetries
  THEN q' = x /\ Goto(t, "write", [retries |-> th[t].retries + 1])
  ELSE q' = Unlocked(x) /\ Return(t)

\* A blocking writer at the page written last moves the tail on.
write_head(t) ==
  LET m == th[t] IN
  /\ At(t, "writeHead")
  /\ IF q.mode = "blocking" /\ q.commit = m.temp /\ m.temp # q.head /\ m.next # q.head
     THEN Retry(t, [q EXCEPT !.tail = IF m.retries < MaxRetries THEN m.next ELSE @])
     ELSE Goto(t, "flag", [head |-> q.head]) /\ UNCHANGED q
  /\ UNCHANGED log

\* A flag on tail->next means that the tail has reached the head.
write_flag(t) ==
  /\ At(t, "flag")
  /\ Goto(t, CASE q.next[th[t].temp].flag -> "full"
               [] ~q.next[th[t].temp].flag /\ th[t].next = th[t].head -> "isempty"
               [] OTHER -> "claim", <<>>)
  /\ UNCHANGED <<q, log>>

\* rqueue_isempty reads the head, then the reader page.
write_isempty_head(t) ==
  /\ At(t, "isempty")
  /\ Goto(t, "isemptyReader", [old |-> q.head])
  /\ UNCHANGED <<q, log>>

write_isempty(t) ==
  /\ At(t, "isemptyReader")
  /\ Goto(t, IF rqueue_isempty(th[t].old, q.commit, q.tail) THEN "claim" ELSE "full", <<>>)
  /\ UNCHANGED <<q, log>>

\* The head is moved on by one page, unless the link behind it is flagged.
Advanced(m) ==
  LET nextpp == q.next[m.head].to IN
  IF q.next[m.head].flag THEN q
  ELSE [q EXCEPT !.next[m.head] = Flagged(nextpp),
                 !.next[m.temp] = IF @ = Flagged(m.head) THEN Link(m.head) ELSE @,
                 !.head = nextpp]

\* Variant: a blocking writer drops a value, too.
write_full_AnyMode(t) ==
  /\ At(t, "full")
  /\ IF q.next[q.commit] = Link(th[t].temp) /\ q.read_sync = 0
     THEN /\ Continue(t, Advanced(th[t]))
          /\ log' = [log EXCEPT !.stale = @ \/ th[t].head # q.head]
     ELSE Retry(t, q) /\ UNCHANGED log

\* A full buffer: in overwrite mode the head is moved on, under read_sync.
write_full(t) ==
  /\ At(t, "full")
  /\ IF q.mode = "overwrite" /\ q.next[q.commit] = Link(th[t].temp) /\ q.read_sync = 0
     THEN /\ Continue(t, Advanced(th[t]))
          /\ log' = [log EXCEPT !.stale = @ \/ th[t].head # q.head]
     ELSE Retry(t, q) /\ UNCHANGED log

\* The flag is read once more.
write_claim(t) ==
  /\ At(t, "claim")
  /\ IF q.next[th[t].temp].flag THEN Continue(t, q)
     ELSE Goto(t, "advance", <<>>) /\ UNCHANGED q
  /\ UNCHANGED log

\* The page at the tail is claimed.
write_advance(t) ==
  /\ At(t, "advance")
  /\ q' = [q EXCEPT !.tail = th[t].next]
  /\ log' = [log EXCEPT !.accepted = Append(@, th[t].value),
                        !.stale = @ \/ q.next[th[t].temp].to # th[t].next]
  /\ Goto(t, "old", <<>>)

write_old(t) ==
  /\ At(t, "old")
  /\ Goto(t, "set", [old |-> q.value[th[t].temp]])
  /\ UNCHANGED <<q, log>>

\* The value is set unless the old one has changed; the old one is freed.
write_set(t) ==
  LET m == th[t] IN
  /\ At(t, "set")
  /\ q' = [q EXCEPT !.value[m.temp] = IF @ = m.old THEN m.value ELSE @]
  /\ log' = [log EXCEPT !.freed = @ \cup ({m.old} \ {Nil})]
  /\ Goto(t, "count", <<>>)

write_count(t) ==
  /\ At(t, "count")
  /\ q' = [q EXCEPT !.writes = @ + 1]
  /\ Goto(t, "commit", <<>>)
  /\ UNCHANGED log

\* Variant: the tail is made readable instead of the page written.
write_commit_Tail(t) ==
  /\ At(t, "commit")
  /\ q' = Unlocked([q EXCEPT !.commit = IF q.num_writers = 1 THEN q.tail ELSE @])
  /\ Return(t)
  /\ UNCHANGED log

\* The page becomes readable; 0 is returned.
write_commit(t) ==
  /\ At(t, "commit")
  /\ q' = Unlocked([q EXCEPT !.commit = IF q.num_writers = 1 THEN th[t].temp ELSE @])
  /\ Return(t)
  /\ UNCHANGED log

-----------------------------------------------------------------------------

ReaderStep(t) ==
  \/ rqueue_read(t) \/ read_lock(t) \/ read_commit(t) \/ read_tail(t) \/ read_connect(t)
  \/ read_swap(t) \/ read_head(t) \/ read_reader(t) \/ read_value(t) \/ read_clear(t)

WriterStep(t) ==
  \/ rqueue_write(t) \/ write_lock(t) \/ write_next(t) \/ write_head(t) \/ write_flag(t)
  \/ write_isempty_head(t) \/ write_isempty(t) \/ write_full(t) \/ write_claim(t)
  \/ write_advance(t) \/ write_old(t) \/ write_set(t) \/ write_count(t) \/ write_commit(t)

Next == (\E t \in Readers : ReaderStep(t)) \/ (\E t \in Writers : WriterStep(t))

Spec == Init /\ [][Next]_vars

Symmetry == Permutations(Writers)

-----------------------------------------------------------------------------

\* The pages of the circle from the head on, and the values in them.
Circle ==
  FoldLeft(LAMBDA ps, i : Append(ps, q.next[Last(ps)].to), <<q.head>>, [i \in 1 .. Size |-> i])
Stored == SelectSeq([i \in DOMAIN Circle |-> q.value[Circle[i]]], LAMBDA v : v # Nil)

PositionOf(v) == CHOOSE i \in DOMAIN log.accepted : log.accepted[i] = v

\* As long as no writer acted on a page that a reader had swapped out (its
\* next_page and head are read before they are used, and not checked again):
\* between two reads the pages other than the reader page form one circle,
\* linked both ways, and the only flagged link is the one to the head, although
\* the swap of rqueue_read and the move of the head in rqueue_write change
\* several links.
RingIntact ==
  q.read_sync = 0 /\ ~log.stale =>
    /\ ToSet(Circle) = Pages \ {q.reader}
    /\ q.next[Last(Circle)] = Flagged(q.head) /\ q.prev[q.head] = Last(Circle)
    /\ \A i \in 1 .. Size : ~q.next[Circle[i]].flag /\ q.prev[Circle[i + 1]] = Circle[i]

\* Under the same condition values come out of rqueue_read in the order in
\* which rqueue_write claimed their pages, none twice and none that was given
\* to free_value_cb; in blocking mode none is skipped.
ReadInOrder ==
  ~log.stale =>
    /\ \A i, j \in DOMAIN log.taken : i < j => PositionOf(log.taken[i]) < PositionOf(log.taken[j])
    /\ q.mode = "blocking" => IsPrefix(log.taken, log.accepted)
    /\ ToSet(log.taken) \cap log.freed = {}

\* Under the same condition, when no call is under way, every value accepted
\* was read, was freed or is in the circle; in blocking mode the circle holds,
\* from the head on, all that was not read; the counters agree.
NothingLost ==
  ~log.stale /\ (\A t \in Threads : At(t, "idle")) =>
    /\ ToSet(log.accepted) = ToSet(log.taken) \cup log.freed \cup ToSet(Stored)
    /\ q.mode = "blocking" => log.accepted = log.taken \o Stored
    /\ q.writes = Len(log.accepted) /\ q.reads = Len(log.taken)
=============================================================================
