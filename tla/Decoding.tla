------------------------------ MODULE Decoding ------------------------------
(***************************************************************************)
(* utils/decode.rs and forward_lines of utils/cmd.rs: the output of a      *)
(* command, which arrives in pieces cut anywhere, as lines of text. The    *)
(* encoding is settled from the first piece, a line goes out when it is    *)
(* complete, and of a line that a tool keeps redrawing the last redraw     *)
(* that shows a percentage.                                                *)
(***************************************************************************)
EXTENDS Integers, FiniteSets, Sequences, SequencesExt

CONSTANTS
  MaxText,     \* bound: characters of an output
  MaxPiece,    \* bound: bytes that arrive at once
  Scripts      \* "foreign": text beyond ASCII in UTF-16 without a byte order mark

DecodingAssumption == {MaxText, MaxPiece} \subseteq Nat \ {0}

(* Characters: a line feed, a carriage return, a percentage, a letter of   *)
(* another script, and one of which UTF-16's low byte is a line feed's.    *)
LF == "line feed"
CR == "carriage return"
Percent == "percentage"
Letter == "letter"
Odd == "odd letter"
Ascii == {LF, CR, Percent}

(* How a tool writes: UTF-16 with a byte order mark or without, or bytes   *)
(* of a code page. A line feed alone in a code page, one byte in all, does *)
(* not settle the encoding and is kept as a line; no tool writes that.     *)
Encodings == {"marked", "unmarked", "code page"}
Texts == UNION {[1..n -> Ascii \cup {Letter, Odd}] : n \in 1..MaxText}
Outputs ==
  {o \in [text : Texts, encoding : Encodings] :
     /\ o.encoding = "code page" => Odd \notin ToSet(o.text) /\ o.text # <<LF>>
     /\ o.encoding = "unmarked" /\ "foreign" \notin Scripts => ToSet(o.text) \subseteq Ascii}

(* The bytes of a character; of a mark.                                    *)
Low(c) == IF c = Odd THEN LF ELSE c
High(c) == IF c \in Ascii THEN "zero" ELSE "high"
Wide(text) == FlattenSeq([i \in DOMAIN text |-> <<Low(text[i]), High(text[i])>>])
Mark == <<"FF", "FE">>
Encoded(o) ==
  CASE o.encoding = "marked" -> Mark \o Wide(o.text)
    [] o.encoding = "unmarked" -> Wide(o.text)
    [] o.encoding = "code page" -> o.text

VARIABLES
  output,     \* what the command writes
  arrived,    \* how many bytes of it have arrived
  utf16,      \* LineDecoder: how it reads them, or "unsettled"
  pending,    \* LineDecoder: bytes of the line that is not complete
  kept,       \* the lines of the command's output
  redraws,    \* the redraws sent to the log of the line being written
  ended       \* whether the pipe is closed and the last line taken

vars == <<output, arrived, utf16, pending, kept, redraws, ended>>

Init ==
  /\ output \in Outputs
  /\ arrived = 0 /\ utf16 = "unsettled" /\ pending = <<>>
  /\ kept = <<>> /\ redraws = <<>> /\ ended = FALSE

---------------------------------------------------------------------------
Units(bytes) == [i \in 1..(Len(bytes) \div 2) |-> <<bytes[2 * i - 1], bytes[2 * i]>>]
Count(units, Is(_)) == Cardinality({i \in DOMAIN units : Is(units[i])})

LooksLikeUtf16(bytes) ==
  \/ IsPrefix(Mark, bytes)
  \/ Count(Units(bytes), LAMBDA u : u[2] = "zero" /\ u[1] # "zero") * 2 > Len(Units(bytes))

Character(u) ==
  IF u[2] = "zero" THEN u[1] ELSE IF u[1] = LF THEN Odd ELSE u[1]
Decode(bytes, wide) ==
  IF ~wide THEN bytes
  ELSE LET units == Units(IF IsPrefix(Mark, bytes) THEN SubSeq(bytes, 3, Len(bytes)) ELSE bytes)
       IN  [i \in DOMAIN units |-> Character(units[i])]

(* The redraws of a line: what stands between its carriage returns.        *)
Split(text, at) ==
  LET cuts == {0, Len(text) + 1} \cup {i \in DOMAIN text : text[i] = at}
      ordered == SetToSortSeq(cuts, <)
  IN  [i \in 1..(Len(ordered) - 1) |-> SubSeq(text, ordered[i] + 1, ordered[i + 1] - 1)]

(* shown: the last redraw that is not empty.                               *)
Shown(text) ==
  LET filled == SelectSeq(Split(text, CR), LAMBDA r : r # <<>>)
  IN  IF filled = <<>> THEN <<>> ELSE Last(filled)

(* Where the first line ends that is complete: UTF-16 is split at whole    *)
(* units. Mutant: at every byte that is a line feed.                       *)
LineEndOfBytes(bytes, wide) ==
  LET ends == {i \in DOMAIN bytes : bytes[i] = LF}
  IN  IF ends = {} THEN [at |-> 0, after |-> 0]
      ELSE LET i == CHOOSE i \in ends : \A j \in ends : i <= j
           IN  [at |-> i - 1, after |-> IF wide THEN i + 1 ELSE i]

LineEnd(bytes, wide) ==
  LET ends == IF wide THEN {i \in DOMAIN Units(bytes) : Units(bytes)[i] = <<LF, "zero">>}
              ELSE {i \in DOMAIN bytes : bytes[i] = LF}
      width == IF wide THEN 2 ELSE 1
  IN  IF ends = {} THEN [at |-> 0, after |-> 0]
      ELSE LET i == CHOOSE i \in ends : \A j \in ends : i <= j
           IN  [at |-> width * (i - 1), after |-> width * i]

(* The lines that are complete, and what is left: at most MaxPiece line    *)
(* ends arrive at once, and one waits while the encoding is not settled.   *)
Taken(bytes, wide) ==
  LET lines[n \in 0..(MaxPiece + 1)] ==
        IF n = 0 THEN [taken |-> <<>>, rest |-> bytes]
        ELSE LET so == lines[n - 1]
                 e == LineEnd(so.rest, wide)
             IN  IF e.after = 0 THEN so
                 ELSE [taken |-> Append(so.taken, Shown(Decode(SubSeq(so.rest, 1, e.at), wide))),
                       rest |-> SubSeq(so.rest, e.after + 1, Len(so.rest))]
  IN  lines[MaxPiece + 1]

(* progress: the last finished redraw with a percentage.                   *)
Progress(bytes, wide) ==
  LET parts == Split(Decode(bytes, wide), CR)
      finished == SelectSeq(SubSeq(parts, 1, Len(parts) - 1), LAMBDA r : Percent \in ToSet(r))
  IN  IF finished = <<>> THEN <<>> ELSE Last(finished)

(* push, and what forward_lines does with it.                              *)
Arrives(n) ==
  /\ ~ended /\ arrived + n <= Len(Encoded(output))
  /\ LET bytes == pending \o SubSeq(Encoded(output), arrived + 1, arrived + n)
         settled == IF utf16 # "unsettled" \/ Len(bytes) < 2 THEN utf16
                    ELSE IF LooksLikeUtf16(bytes) THEN "yes" ELSE "no"
         so == IF settled = "unsettled" THEN [taken |-> <<>>, rest |-> bytes]
               ELSE Taken(bytes, settled = "yes")
         progress == IF settled = "unsettled" THEN <<>> ELSE Progress(so.rest, settled = "yes")
         sent == IF so.taken = <<>> THEN redraws ELSE <<>>
     IN  /\ utf16' = settled
         /\ pending' = so.rest
         /\ kept' = kept \o so.taken
         /\ redraws' = IF progress = <<>> \/ (sent # <<>> /\ Last(sent) = progress) THEN sent
                       ELSE Append(sent, progress)
  /\ arrived' = arrived + n
  /\ UNCHANGED <<output, ended>>

(* finish: the last line, when it has no line end.                         *)
PipeCloses ==
  /\ ~ended /\ arrived = Len(Encoded(output))
  /\ kept' = IF pending = <<>> THEN kept
             ELSE Append(kept, Shown(Decode(pending, utf16 = "yes")))
  /\ pending' = <<>>
  /\ ended' = TRUE
  /\ UNCHANGED <<output, arrived, utf16, redraws>>

Next == (\E n \in 1..MaxPiece : Arrives(n)) \/ PipeCloses

Spec == Init /\ [][Next]_vars

---------------------------------------------------------------------------
(* The lines of the text itself, and the redraws of the line being written *)
(* that have arrived in full.                                              *)
Lines ==
  LET all == Split(output.text, LF)
      lines == IF Last(all) = <<>> THEN Front(all) ELSE all
  IN  [i \in DOMAIN lines |-> Shown(lines[i])]

Redraws == UNION {ToSet(Front(Split(l, CR))) : l \in ToSet(Split(output.text, LF))}

(* However the output is cut, its lines come out whole and in order, all   *)
(* of them by its end, and what is shown of a line that is not complete is *)
(* a redraw that is.                                                       *)
LinesHoweverCut ==
  /\ IsPrefix(kept, Lines)
  /\ ended => kept = Lines
  /\ \A r \in ToSet(redraws) : r \in Redraws
=============================================================================
