-------------------------------- MODULE RBuf --------------------------------
(***************************************************************************)
(* The ring buffer of bytes (rbuf.c): rfx and wfx are the offsets of the   *)
(* next byte to read and to write, one byte of the buffer stays unused.    *)
(***************************************************************************)
EXTENDS Integers, Sequences, SequencesExt

CONSTANT RbufSize
VARIABLES rb,    \* buf, size, rfx, wfx, used, available, mode
          ret

rbuf_create(mode) ==
  /\ rb = [buf |-> [i \in 0 .. RbufSize |-> 0], size |-> RbufSize + 1, rfx |-> 0, wfx |-> 0,
           used |-> 0, available |-> RbufSize, mode |-> mode]
  /\ ret = 0

rbuf_update_size(r) ==
  LET used == IF r.wfx = r.rfx THEN 0
              ELSE IF r.wfx < r.rfx THEN r.wfx + (r.size - r.rfx) ELSE r.wfx - r.rfx
  IN  [r EXCEPT !.used = used, !.available = r.size - used - 1]

Skipped(size) ==
  LET rfx == IF size >= rb.size THEN rb.wfx
             ELSE IF size > rb.size - rb.rfx THEN size - (rb.size - rb.rfx) ELSE rb.rfx + size
  IN  rbuf_update_size([rb EXCEPT !.rfx = rfx])

\* Nothing keeps size below what is stored: the offset can pass wfx.
rbuf_skip(size) == rb' = Skipped(size) /\ ret' = 0

\* The bytes at n offsets from rfx on, in one piece or in two.
Bytes(n) ==
  LET to_end == rb.size - rb.rfx
  IN  [i \in 1 .. n |-> IF rb.wfx > rb.rfx \/ to_end >= n \/ i <= to_end
                        THEN rb.buf[rb.rfx + i - 1] ELSE rb.buf[i - 1 - to_end]]

rbuf_read(size) ==
  LET n == IF rb.used > size THEN size ELSE rb.used
      to_end == rb.size - rb.rfx
      rfx == IF rb.wfx > rb.rfx \/ to_end >= n THEN rb.rfx + n ELSE n - to_end
  IN  rb' = rbuf_update_size([rb EXCEPT !.rfx = IF n = 0 THEN @ ELSE rfx]) /\ ret' = Bytes(n)

\* Variant: the room that was free is not taken into account.
Room_Whole(n) == IF n < rb.available THEN rb.rfx ELSE (rb.rfx + n) % rb.size

\* The read offset after room was made for n bytes by giving up the oldest.
Room(n) ==
  LET rfx == IF n < rb.available THEN rb.rfx ELSE rb.rfx + (n - rb.available)
  IN  IF n >= rb.available /\ rfx >= rb.size THEN rfx - rb.size ELSE rfx

\* Stores n bytes of data from wfx on, going round the end when wfx is ahead.
Stored(rfx, n, data) ==
  LET to_end == rb.size - rb.wfx
      round == rb.wfx >= rfx /\ n > to_end
      Place(i) == IF round /\ i > to_end THEN i - 1 - to_end ELSE rb.wfx + i - 1
  IN  [rb EXCEPT !.rfx = rfx,
                 !.wfx = IF round THEN n - to_end ELSE rb.wfx + n,
                 !.buf = [o \in DOMAIN rb.buf |->
                            IF \E i \in 1 .. n : Place(i) = o
                            THEN data[CHOOSE i \in 1 .. n : Place(i) = o] ELSE rb.buf[o]]]

rbuf_write(data) ==
  LET size == Len(data)
      cap == rb.size - 1
      last == SubSeq(data, size - cap + 1, size)
  IN  IF rb.mode = "overwrite" /\ size >= rb.available /\ size > cap
      THEN /\ rb' = rbuf_update_size([rb EXCEPT !.rfx = 0, !.wfx = cap,
                      !.buf = [o \in DOMAIN rb.buf |-> IF o < cap THEN last[o + 1] ELSE rb.buf[o]]])
           /\ ret' = size
      ELSE LET n == IF rb.mode = "overwrite" \/ size < rb.available THEN size ELSE rb.available
               rfx == IF rb.mode = "overwrite" THEN Room(size) ELSE rb.rfx
           IN  rb' = rbuf_update_size(Stored(rfx, n, data)) /\ ret' = n

rbuf_clear == rb' = rbuf_update_size([rb EXCEPT !.rfx = 0, !.wfx = 0]) /\ ret' = 0

\* The offset of a byte behind rfx, -1 for none.
rbuf_find(octet) ==
  LET ahead == IF rb.wfx > rb.rfx THEN rb.rfx .. rb.wfx - 1 ELSE rb.rfx .. rb.size - 1
      round == IF rb.wfx > rb.rfx THEN {} ELSE 0 .. rb.wfx - 1
      found == {i - rb.rfx : i \in {j \in ahead : rb.buf[j] = octet}}
               \cup {rb.size - rb.rfx + i : i \in {j \in round : rb.buf[j] = octet}}
  IN  IF rb.used = 0 \/ found = {} THEN -1 ELSE CHOOSE i \in found : \A j \in found : i <= j

\* Reads up to and with the byte.  The first loop goes to the end of the buffer,
\* whatever is stored there, and the second one to the end of what is stored;
\* both stop at maxsize bytes.
rbuf_read_until(octet, maxsize) ==
  LET Least(a, b) == IF a < b THEN a ELSE b
      first == Least(maxsize, rb.size - rb.rfx)
      second == Least(maxsize, rb.used)
      most == IF first > second THEN first ELSE second
      all == [i \in 1 .. most |-> rb.buf[(rb.rfx + i - 1) % rb.size]]
      ends == {i \in 1 .. most : all[i] = octet}
      n == IF ends = {} THEN most ELSE CHOOSE i \in ends : \A j \in ends : i <= j
  IN  rb' = Skipped(n) /\ ret' = SubSeq(all, 1, n)
=============================================================================
