-------------------------------- MODULE FBuf --------------------------------
(***************************************************************************)
(* The growing byte buffer (fbuf.c).  bytes is what lies between skip and  *)
(* skip + used, nul tells whether a terminator follows it; the rest of the *)
(* allocation is never read.  wild: a byte was written outside of it.       *)
(***************************************************************************)
EXTENDS Integers, Sequences, SequencesExt

CONSTANTS MINLEN, FASTGROWSIZE, SLOWGROWSIZE, LINE_EST, Maxlen
VARIABLES fb,    \* len (0: no data), skip, bytes, nul, wild
          ret

LOCAL Used(f) == Len(f.bytes)
Whitespace == {" ", "\n", "\r"}

fbuf_create == fb = [len |-> 0, skip |-> 0, bytes |-> << >>, nul |-> TRUE, wild |-> FALSE] /\ ret = 0

\* The first size on the way up from len that holds n bytes.
RECURSIVE Grown(_, _)
Grown(len, n) ==
  IF n <= len THEN len
  ELSE Grown(IF len = 0 THEN MINLEN ELSE IF len < FASTGROWSIZE THEN FASTGROWSIZE ELSE len + SLOWGROWSIZE, n)

Refused(f, newlen) ==
  /\ newlen + 1 > f.len
  /\ Maxlen # 0 /\ newlen > Maxlen


\* Room for newlen bytes and the terminator, unless it is refused: as it is, by
\* moving the bytes to the front, or in a larger allocation.  The bytes are
\* copied to a new one without their terminator.
fbuf_extend(f, newlen) ==
  LET need == newlen + 1
      len == Grown(f.len, need)
  IN  CASE need <= f.len - f.skip -> f
        [] need > f.len - f.skip /\ f.skip > 0 /\ need <= f.len ->
             [f EXCEPT !.skip = 0, !.nul = @ \/ f.bytes = << >>]
        [] OTHER ->
             [f EXCEPT !.len = IF Maxlen # 0 /\ len > Maxlen THEN Maxlen + 1 ELSE len,
                       !.skip = 0, !.nul = (f.skip = 0) /\ (@ \/ f.len = 0)]

RECURSIVE Shrunk(_, _)
Shrunk(len, used) ==
  LET less == IF len <= FASTGROWSIZE THEN len \div 2 ELSE len - SLOWGROWSIZE
  IN  IF len <= MINLEN \/ less < used + 1 THEN len ELSE Shrunk(less, used)

fbuf_shrink(f) ==
  [f EXCEPT !.skip = 0, !.len = Shrunk(IF f.bytes = << >> THEN 0 ELSE @, Used(f)),
            !.nul = @ \/ (f.skip > 0 /\ f.bytes = << >>)]

fbuf_clear(f) == [f EXCEPT !.bytes = << >>, !.skip = 0, !.nul = TRUE]

\* The terminator is written through data, also when that is NULL.
fbuf_remove(f, n) ==
  IF n >= Used(f) THEN [fbuf_clear(f) EXCEPT !.wild = @ \/ f.len = 0]
  ELSE LET skip == f.skip + n
       IN  [f EXCEPT !.bytes = SubSeq(@, n + 1, Used(f)),
                     !.skip = IF n > 0 /\ skip >= f.len \div 2 THEN 0 ELSE skip]
-----------------------------------------------------------------------------
Shrink == fb' = fbuf_shrink(fb) /\ ret' = fb'.len
Clear == fb' = fbuf_clear(fb) /\ ret' = 0
Take(n) == fb' = fbuf_remove(fb, n) /\ ret' = Used(fb')

Extend(newlen) ==
  IF Refused(fb, newlen) THEN UNCHANGED fb /\ ret' = 0
  ELSE fb' = fbuf_extend(fb, newlen) /\ ret' = fb'.len

fbuf_add_binary(data) ==
  IF Refused(fb, Used(fb) + Len(data)) THEN UNCHANGED fb /\ ret' = -1
  ELSE /\ fb' = [fbuf_extend(fb, Used(fb) + Len(data)) EXCEPT !.bytes = @ \o data, !.nul = TRUE]
       /\ ret' = Len(data)

\* The gap in front is used if it is large enough.
fbuf_prepend_binary(data) ==
  CASE fb.skip >= Len(data) ->
         fb' = [fb EXCEPT !.skip = @ - Len(data), !.bytes = data \o @] /\ ret' = Len(data)
    [] fb.skip < Len(data) /\ Refused(fb, Used(fb) + Len(data)) -> UNCHANGED fb /\ ret' = -1
    [] OTHER -> /\ fb' = [fbuf_extend(fb, Used(fb) + Len(data)) EXCEPT !.bytes = data \o @]
                /\ ret' = Len(data)

\* fbuf_set, and fbuf_copy from another buffer, which starts at the front.
fbuf_set(data) ==
  IF Refused(fb, Len(data)) THEN UNCHANGED fb /\ ret' = -1
  ELSE fb' = [fbuf_extend(fb, Len(data)) EXCEPT !.bytes = data, !.nul = TRUE] /\ ret' = Len(data)

fbuf_copy(data) ==
  IF Refused(fb, Len(data)) THEN UNCHANGED fb /\ ret' = -1
  ELSE fb' = [fbuf_extend(fb, Len(data)) EXCEPT !.bytes = data, !.skip = 0, !.nul = TRUE] /\ ret' = Len(data)

\* There is room for max bytes; the length of the whole line is added, and the
\* terminator written behind it, even when the line was cut off.
fbuf_nprintf(max, data) ==
  LET f == fbuf_extend(fb, Used(fb) + max)
      n == Used(fb) + Len(data)
  IN  IF Refused(fb, Used(fb) + max) THEN UNCHANGED fb /\ ret' = -1
      ELSE /\ fb' = [f EXCEPT !.bytes = @ \o data, !.nul = TRUE, !.wild = @ \/ f.skip + n >= f.len]
           /\ ret' = Len(data)

\* The line is written into the room that was estimated, and once more if it
\* did not fit.
fbuf_printf(data) ==
  LET f == fbuf_extend(fb, Used(fb) + LINE_EST)
      fits == Len(data) < f.len - (f.skip + Used(f))
      n == Used(fb) + Len(data)
  IN  CASE Refused(fb, Used(fb) + LINE_EST) -> UNCHANGED fb /\ ret' = -1
        [] ~Refused(fb, Used(fb) + LINE_EST) /\ ~fits /\ Refused(f, n) ->
             fb' = [f EXCEPT !.nul = TRUE] /\ ret' = -1
        [] OTHER -> /\ fb' = [(IF fits THEN f ELSE fbuf_extend(f, n)) EXCEPT !.bytes = @ \o data, !.nul = TRUE]
                    /\ ret' = Len(data)

\* A file or descriptor gives some of the bytes asked for.
fbuf_read(data, explen) ==
  /\ Len(data) <= explen
  /\ IF Refused(fb, Used(fb) + explen) THEN UNCHANGED fb /\ ret' = -1
     ELSE /\ fb' = [fbuf_extend(fb, Used(fb) + explen) EXCEPT !.bytes = @ \o data, !.nul = TRUE]
          /\ ret' = Len(data)

\* One byte after the other up to the end of the line, which is cut off with
\* the carriage return before it; a file that ends first leaves what was read.
RECURSIVE ReadLine(_, _)
ReadLine(f, file) ==
  IF f.bytes # << >> /\ Last(f.bytes) = "\n" THEN [ok |-> TRUE, f |-> f]
  ELSE IF Refused(f, Used(f) + 1) THEN [ok |-> FALSE, f |-> f]
  ELSE LET g == fbuf_extend(f, Used(f) + 1)
       IN  IF file = << >> THEN [ok |-> FALSE, f |-> g]
           ELSE ReadLine([g EXCEPT !.bytes = Append(@, Head(file)), !.nul = FALSE], Tail(file))

fbuf_read_ln(file) ==
  LET r == ReadLine(fb, file)
      line == Front(r.f.bytes)
      cut == IF line # << >> /\ Last(line) = "\r" THEN Front(line) ELSE line
  IN  IF r.ok THEN fb' = [r.f EXCEPT !.bytes = cut, !.nul = TRUE] /\ ret' = Len(cut) - Used(fb)
      ELSE fb' = r.f /\ ret' = -1

\* n bytes were taken, of all there are or of as many as were asked for.
fbuf_write(n) == n <= Used(fb) /\ fb' = (IF n > 0 THEN fbuf_remove(fb, n) ELSE fb) /\ ret' = n

LOCAL Spaces(s) == CHOOSE i \in 0 .. Len(s) : /\ \A j \in 1 .. i : s[j] \in Whitespace
                                              /\ i < Len(s) => s[i + 1] \notin Whitespace
fbuf_trim == fb' = fbuf_remove(fb, Spaces(fb.bytes)) /\ ret' = Spaces(fb.bytes)

fbuf_rtrim ==
  LET n == Spaces(Reverse(fb.bytes))
  IN  /\ fb' = [fb EXCEPT !.bytes = SubSeq(@, 1, Used(fb) - n), !.nul = TRUE, !.wild = @ \/ fb.len = 0]
      /\ ret' = n

fbuf_set_used(n) ==
  /\ fb' = IF n < Used(fb) THEN [fb EXCEPT !.bytes = SubSeq(@, 1, n), !.nul = TRUE] ELSE fb
  /\ ret' = Used(fb')

fbuf_detach ==
  /\ fb' = IF fb.bytes = << >> THEN fb ELSE [fb EXCEPT !.len = 0, !.skip = 0, !.bytes = << >>, !.nul = TRUE]
  /\ ret' = Used(fb)
=============================================================================
