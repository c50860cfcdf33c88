-------------------------------- MODULE Ledger --------------------------------
(***************************************************************************)
(* The usage ledger: one JSON line per run, appended by every surface and  *)
(* read from its end, in blocks, by the dashboard and by volante --usage,  *)
(* in a process of their own.  A line of record r is the bytes of r and a  *)
(* line feed; a write that fails half way leaves a prefix of it.           *)
(***************************************************************************)
EXTENDS Integers, Sequences, SequencesExt

CONSTANTS
  Records,        \* identities of the records
  RecordBytes,    \* bytes of a record, the line feed apart
  Chunk,          \* _READ_CHUNK
  MaxLine,        \* _MAX_LINE_BYTES
  Limit           \* records a reader asks for

ASSUME LedgerAssumption ==
  /\ RecordBytes \in Nat \ {0} /\ RecordBytes =< MaxLine
  /\ Chunk \in Nat \ {0} /\ Chunk =< MaxLine
  /\ MaxLine \in Nat
  /\ Limit \in Nat \ {0}

VARIABLES
  file,     \* the bytes on disk
  reader    \* the walk of _lines_backwards under read_runs

ledgerVars == <<file, reader>>

LF == <<"LF", 0>>
Bytes(r) == [i \in 1..RecordBytes |-> <<r, i>>]
LineOf(r) == Append(Bytes(r), LF)

(* The pieces a byte string splits into at its line feeds, as bytes.split: *)
(* one more than there are line feeds.  Those of its k last bytes are those *)
(* of the k - 1 last, the first of them longer by a byte, or a new one.     *)
Pieces(bytes) ==
  LET last[k \in 0..Len(bytes)] ==
        IF k = 0 THEN << <<>> >>
        ELSE LET byte == bytes[Len(bytes) - k + 1]
                 rest == last[k - 1]
             IN  IF byte = LF THEN << <<>> >> \o rest
                 ELSE << <<byte>> \o Head(rest) >> \o Tail(rest)
  IN  last[Len(bytes)]

(* What read_runs keeps of the lines it is handed: those that parse, up to *)
(* the limit.                                                              *)
Parses(line) == \E r \in Records : line = Bytes(r)
RecordIn(line) == CHOOSE r \in Records : line = Bytes(r)
Kept(lines) ==
  LET kept[i \in 0..Len(lines)] ==
        IF i = 0 THEN <<>>
        ELSE IF Parses(lines[i]) THEN Append(kept[i - 1], RecordIn(lines[i]))
        ELSE kept[i - 1]
  IN  kept[Len(lines)]
Upto(limit, s) == IF Len(s) > limit THEN SubSeq(s, 1, limit) ELSE s

NoReader == [at |-> "idle", position |-> 0, carry |-> <<>>,
             out |-> <<>>, opened |-> <<>>]

LedgerTypeOK ==
  /\ file \in Seq({LF} \cup (Records \X (1..RecordBytes)))
  /\ reader.at \in {"idle", "walking", "done", "stopped"}
  /\ reader.position \in 0..Len(file)
  /\ Len(reader.out) =< Limit
  /\ IsPrefix(reader.opened, file)

LedgerInit == file = <<>> /\ reader = NoReader

-----------------------------------------------------------------------------
(* record_run: one append, or what of it went out before the disk was full, *)
(* the error swallowed.                                                     *)
Writes(r) == file' = file \o LineOf(r)
WritesTorn(r) ==
  \E n \in 0..RecordBytes : file' = file \o SubSeq(LineOf(r), 1, n)

(* A reader opens the file and seeks its end.                               *)
ReaderOpens ==
  /\ reader.at = "idle"
  /\ reader' = [at |-> IF file = <<>> THEN "done" ELSE "walking",
                position |-> Len(file), carry |-> <<>>,
                out |-> <<>>, opened |-> file]
  /\ UNCHANGED file

(* The block before the position, in front of what was carried over.        *)
Block ==
  LET step == IF reader.position < Chunk THEN reader.position ELSE Chunk
  IN  SubSeq(file, reader.position - step + 1, reader.position) \o reader.carry

(* Mutant: the first piece of a block is taken for a whole line.            *)
LinesOfEager(pieces, left) == Reverse(pieces)

(* The lines of a block, newest first: its first piece is one only at the   *)
(* start of the file.                                                       *)
LinesOf(pieces, left) == Reverse(IF left > 0 THEN Tail(pieces) ELSE pieces)

(* One block: the walk goes on before it, unless the result is full, the    *)
(* file is at its start or the piece carried over has no end.               *)
ReaderTakesBlock ==
  /\ reader.at = "walking"
  /\ LET pieces == Pieces(Block)
         left == reader.position - Chunk
         endless == Len(Head(pieces)) > MaxLine
         out == Upto(Limit, reader.out \o Kept(LinesOf(pieces, left)))
     IN  reader' = [reader EXCEPT
           !.at = IF endless THEN "stopped"
                  ELSE IF left =< 0 \/ Len(out) = Limit THEN "done" ELSE @,
           !.position = IF left < 0 THEN 0 ELSE left,
           !.carry = Head(pieces),
           !.out = IF endless THEN @ ELSE out]
  /\ UNCHANGED file

ReaderStep == ReaderOpens \/ ReaderTakesBlock

-----------------------------------------------------------------------------
(* The lines of a file, newest first, and the records a reader owes.        *)
Lines(bytes) == Reverse(Pieces(bytes))
Newest(bytes) == Upto(Limit, Kept(Lines(bytes)))

(* However appends interleave with the walk and wherever blocks cut lines,  *)
(* a reader hands out the newest whole records of the file it opened, once  *)
(* each and in order; fewer only where a line over the limit stops it.      *)
NewestFirst ==
  /\ reader.at = "done" => reader.out = Newest(reader.opened)
  /\ reader.at = "stopped" =>
       /\ IsPrefix(reader.out, Newest(reader.opened))
       /\ \E i \in DOMAIN Lines(reader.opened) :
            Len(Lines(reader.opened)[i]) > MaxLine
===============================================================================
