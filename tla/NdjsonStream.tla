---------------------------- MODULE NdjsonStream ----------------------------
(***************************************************************************)
(* The NDJSON body (apps/api/src/utils/ndjson-stream.ts): chunks of bytes, *)
(* cut anywhere by the network, are decoded and split into lines under a   *)
(* byte limit; each line that is not blank is validated and handed to the  *)
(* consumer; an error first drains what the client still sends, within a   *)
(* budget.  Each action is what runs between two awaits of the generator.  *)
(*                                                                         *)
(* Bytes: "a" of a valid line, "x" that no valid line contains, "n" the    *)
(* newline, "1" "2" the lead and the trail of a two-byte character.        *)
(***************************************************************************)
EXTENDS Integers, Sequences, SequencesExt

CONSTANTS
  MaxLen,         \* bound: bytes of the body
  MaxChunk,       \* bound: bytes of a chunk
  Limits          \* the values of NDJSON_MAX_BYTES looked at

ASSUME NdjsonAssumption ==
  MaxLen \in Nat /\ MaxChunk \in Nat \ {0} /\ Limits \subseteq Nat

Bytes == {"a", "x", "n", "1", "2"}

Characters == {"a", "x", "n", "e", "?"}

VARIABLES
  body,      \* what the client sends, all in all
  maxBytes,  \* NDJSON_MAX_BYTES, which is also the budget of the drain
  pulled,    \* bytes pulled so far
  partial,   \* the decoder holds a lead byte
  buffered,  \* characters not yet split off
  line,      \* lines seen so far
  out,       \* history: the lines handed to the consumer
  pc,        \* "pull", "split", "drain", "done", "failed", or "returned"
             \* when the consumer leaves the loop
  error,     \* "none", "invalid" (400), "large" (413), "source"
  drained,   \* bytes counted as discarded since the error
  failedAt   \* history: the bytes that were pulled when the error was raised

vars == <<body, maxBytes, pulled, partial, buffered, line, out, pc, error, drained, failedAt>>

Init ==
  /\ body \in BoundedSeq(Bytes, MaxLen) /\ maxBytes \in Limits
  /\ pulled = 0 /\ partial = FALSE /\ buffered = <<>>
  /\ line = 0 /\ out = <<>> /\ pc = "pull" /\ error = "none"
  /\ drained = 0 /\ failedAt = 0

-----------------------------------------------------------------------------
(* TextDecoder in streaming mode: "2" after "1" is one character, written  *)
(* "e"; a byte that fits nowhere becomes the replacement character, "?".   *)
DecodeByte(d, b) ==
  LET text == IF d.partial /\ b # "2" THEN Append(d.text, "?") ELSE d.text
  IN  CASE b = "1" -> [text |-> text, partial |-> TRUE]
        [] b = "2" -> [text |-> Append(text, IF d.partial THEN "e" ELSE "?"), partial |-> FALSE]
        [] OTHER   -> [text |-> Append(text, b), partial |-> FALSE]

Flush(p) == IF p THEN <<"?">> ELSE <<>>

(* Mutant: each chunk is decoded on its own.                               *)
DecodeAlone(p, bytes) ==
  LET d == FoldLeft(DecodeByte, [text |-> <<>>, partial |-> FALSE], bytes)
  IN  [text |-> d.text \o Flush(d.partial), partial |-> FALSE]

(* The decoder that holds a lead byte or not, p, over a chunk.             *)
Decode(p, bytes) ==
  LET d[k \in 0 .. Len(bytes)] ==
        IF k = 0 THEN [text |-> <<>>, partial |-> p] ELSE DecodeByte(d[k - 1], bytes[k])
  IN  d[Len(bytes)]

Valid(l) == \A k \in DOMAIN l : l[k] # "x"

-----------------------------------------------------------------------------
(* An error is raised with n bytes pulled.                                 *)
Fail(e, n) == pc' = "drain" /\ error' = e /\ failedAt' = n

NoError == UNCHANGED <<error, failedAt>>

(* Mutant: the limit is checked against what was pulled before the chunk.  *)
PullLate(n) ==
  LET chunk == SubSeq(body, pulled + 1, pulled + n)
      d     == Decode(partial, chunk)
  IN  /\ pc = "pull" /\ pulled + n <= Len(body)
      /\ pulled' = pulled + n
      /\ IF pulled > maxBytes
         THEN Fail("large", pulled + n) /\ UNCHANGED <<partial, buffered>>
         ELSE /\ buffered' = buffered \o d.text /\ partial' = d.partial
              /\ pc' = "split" /\ NoError
      /\ UNCHANGED <<body, maxBytes, line, out, drained>>

(* A chunk arrives: the limit first, then the decoder.                     *)
Pull(n) ==
  LET chunk == SubSeq(body, pulled + 1, pulled + n)
      d     == Decode(partial, chunk)
  IN  /\ pc = "pull" /\ pulled + n <= Len(body)
      /\ pulled' = pulled + n
      /\ IF pulled + n > maxBytes
         THEN Fail("large", pulled + n) /\ UNCHANGED <<partial, buffered>>
         ELSE /\ buffered' = buffered \o d.text /\ partial' = d.partial
              /\ pc' = "split" /\ NoError
      /\ UNCHANGED <<body, maxBytes, line, out, drained>>

(* One line of the consumer's loop: counted, skipped when blank, refused   *)
(* or handed on.                                                           *)
Take(l, next) ==
  /\ line' = line + 1
  /\ IF l = <<>> \/ Valid(l)
     THEN /\ out' = IF l = <<>> THEN out ELSE Append(out, l)
          /\ pc' = next /\ NoError
     ELSE Fail("invalid", pulled) /\ UNCHANGED out

Newline == SelectInSeq(buffered, LAMBDA c : c = "n")

Split ==
  /\ pc = "split"
  /\ IF Newline = 0
     THEN pc' = "pull" /\ NoError /\ UNCHANGED <<buffered, line, out>>
     ELSE /\ Take(SubSeq(buffered, 1, Newline - 1), "split")
          /\ buffered' = SubSeq(buffered, Newline + 1, Len(buffered))
  /\ UNCHANGED <<body, maxBytes, pulled, partial, drained>>

(* The body ends: a dangling lead byte is flushed, a last line without its *)
(* newline is a line.                                                      *)
End ==
  LET rest == buffered \o Flush(partial)
  IN  /\ pc = "pull" /\ pulled = Len(body)
      /\ IF rest = <<>>
         THEN pc' = "done" /\ NoError /\ UNCHANGED <<line, out>>
         ELSE Take(rest, "done")
      /\ buffered' = <<>> /\ partial' = FALSE
      /\ UNCHANGED <<body, maxBytes, pulled, drained>>

(* The client went away: next() rejects, in the drain as well.             *)
SourceFails ==
  /\ \/ pc = "pull" /\ Fail("source", pulled)
     \/ pc = "drain" /\ pc' = "failed" /\ NoError
  /\ UNCHANGED <<body, maxBytes, pulled, partial, buffered, line, out, drained>>

(* The consumer throws over a line it was handed (a failed insert): the    *)
(* generator returns, and nothing is drained.                              *)
ConsumerThrows ==
  /\ pc \in {"split", "done"} /\ out # <<>>
  /\ pc' = "returned"
  /\ UNCHANGED <<body, maxBytes, pulled, partial, buffered, line, out, error, drained,
                 failedAt>>

(* Mutant: the budget is not counted down.                                 *)
DiscardUncounted(n) ==
  /\ pc = "drain" /\ pulled + n <= Len(body)
  /\ pulled' = pulled + n
  /\ UNCHANGED <<body, maxBytes, partial, buffered, line, out, pc, error, drained, failedAt>>

(* discardRemainder reads on while the budget lasts.                       *)
Discard(n) ==
  /\ pc = "drain" /\ drained <= maxBytes /\ pulled + n <= Len(body)
  /\ pulled' = pulled + n /\ drained' = drained + n
  /\ UNCHANGED <<body, maxBytes, partial, buffered, line, out, pc, error, failedAt>>

(* Mutant: the drain swallows the error.                                   *)
DiscardedForgets ==
  /\ pc = "drain" /\ (pulled = Len(body) \/ drained > maxBytes)
  /\ pc' = "failed" /\ error' = "none"
  /\ UNCHANGED <<body, maxBytes, pulled, partial, buffered, line, out, drained, failedAt>>

(* To the end of the body, or to the end of the budget: the error is       *)
(* thrown on.                                                              *)
Discarded ==
  /\ pc = "drain" /\ (pulled = Len(body) \/ drained > maxBytes)
  /\ pc' = "failed"
  /\ UNCHANGED <<body, maxBytes, pulled, partial, buffered, line, out, error, drained,
                 failedAt>>

Next ==
  \/ \E n \in 1 .. MaxChunk : Pull(n) \/ Discard(n)
  \/ Split \/ End \/ SourceFails \/ ConsumerThrows \/ Discarded

Spec == Init /\ [][Next]_vars

-----------------------------------------------------------------------------
(* The reference: the whole body at once.                                  *)

Text(bytes) ==
  LET d == Decode(FALSE, bytes) IN d.text \o Flush(d.partial)

(* A text cut at its newlines: the lines they end, and what follows the    *)
(* last of them, which is a line too if it is anything at all.             *)
Cut(t) ==
  LET c[k \in 0 .. Len(t)] ==
        IF k = 0 THEN [lines |-> <<>>, rest |-> <<>>]
        ELSE IF t[k] = "n"
             THEN [lines |-> Append(c[k - 1].lines, c[k - 1].rest), rest |-> <<>>]
             ELSE [lines |-> c[k - 1].lines, rest |-> Append(c[k - 1].rest, t[k])]
  IN  c[Len(t)]

Lines(t) ==
  LET c == Cut(t) IN IF c.rest = <<>> THEN c.lines ELSE Append(c.lines, c.rest)

NonBlank(lines) ==
  LET b[k \in 0 .. Len(lines)] ==
        IF k = 0 THEN <<>>
        ELSE IF lines[k] = <<>> THEN b[k - 1] ELSE Append(b[k - 1], lines[k])
  IN  b[Len(lines)]

(* What the consumer should get of the first n lines of the body.          *)
Payloads(n) == NonBlank(SubSeq(Lines(Text(body)), 1, n))

-----------------------------------------------------------------------------
(* What is checked.                                                        *)

TypeOK ==
  /\ body \in Seq(Bytes) /\ maxBytes \in Limits /\ pulled \in 0 .. Len(body) /\ partial \in BOOLEAN
  /\ buffered \in Seq(Characters) /\ line \in Nat /\ out \in Seq(Seq(Characters))
  /\ pc \in {"pull", "split", "drain", "done", "failed", "returned"}
  /\ error \in {"none", "invalid", "large", "source"} /\ drained \in Nat
  /\ failedAt \in Nat
  /\ error = "none" <=> pc \notin {"drain", "failed"}

(* However the network cuts the body, the consumer gets its lines: at any  *)
(* moment those seen so far, and all of them once the body was read        *)
(* (ndjson-stream.ts:17-22).  A refused line is refused for what the body  *)
(* has on it.                                                              *)
ChunkingIsInvisible ==
  /\ line <= Len(Lines(Text(body)))
  /\ error # "invalid" => out = Payloads(line)
  /\ error = "invalid" => /\ out = Payloads(line - 1)
                          /\ ~Valid(Lines(Text(body))[line])
  /\ pc = "done" => line = Len(Lines(Text(body)))

(* The limit is on the wire bytes: a body is accepted whole only within    *)
(* it, and 413 is only for a body past it (ndjson-stream.ts:17-19).        *)
LimitIsExact ==
  /\ pc = "done" => Len(body) <= maxBytes
  /\ error = "large" => Len(body) > maxBytes

(* A client that does not stop sending after an error is read on only      *)
(* while what it sent since is within a budget, and what it sent before    *)
(* was within one but for its last chunk (ndjson-stream.ts:64-69).         *)
DrainIsBounded ==
  [][pulled' # pulled =>
       pulled - (IF pc = "drain" THEN failedAt ELSE 0) <= maxBytes]_vars

-----------------------------------------------------------------------------
(* What the byte counters amount to in every state: until an error, what   *)
(* was pulled is within the limit and nothing counts as discarded; while   *)
(* draining, every byte was pulled before the error or discarded since; a  *)
(* 413 was raised with more bytes in hand than the limit.                  *)
BytesKept ==
  /\ body \in Seq(Bytes) /\ maxBytes \in Nat /\ pulled \in 0 .. Len(body)
  /\ pc \in {"pull", "split", "drain", "done", "failed", "returned"}
  /\ drained \in Nat /\ failedAt \in Nat
  /\ error = "none" <=> pc \notin {"drain", "failed"}
  /\ pc \notin {"drain", "failed"} => pulled <= maxBytes /\ drained = 0
  /\ pc = "drain" => pulled = failedAt + drained
  /\ pc = "done" => pulled = Len(body)
  /\ error = "large" => failedAt > maxBytes /\ failedAt <= pulled

(* Up to an error or the end, what was pulled, decoded in one go, is what  *)
(* was split off, which ends in a newline, and what is buffered; a chunk   *)
(* is only pulled once no newline is left in the buffer.                   *)
SplitSoFar ==
  LET d == Decode(FALSE, SubSeq(body, 1, pulled))
  IN  pc \in {"pull", "split"} =>
        /\ partial = d.partial
        /\ \E k \in 0 .. Len(d.text) :
             LET seen == Cut(SubSeq(d.text, 1, k))
             IN  /\ buffered = SubSeq(d.text, k + 1, Len(d.text))
                 /\ seen.rest = <<>> /\ line = Len(seen.lines) /\ out = NonBlank(seen.lines)
        /\ pc = "pull" => \A k \in DOMAIN buffered : buffered[k] # "n"

ChunksInv == TypeOK /\ SplitSoFar /\ ChunkingIsInvisible
=============================================================================
