---------------------------- MODULE CommandLine ----------------------------
(***************************************************************************)
(* ParseCommandLine of utils.go: how a line of the shell is split into     *)
(* words.  Words are separated by spaces; in quotes a word may be empty    *)
(* and may hold any character, quotes and backslashes after a backslash.   *)
(*                                                                         *)
(* A line is a sequence of characters.  What matters of the others than    *)
(* the four special ones is whether they are encoded in one byte (Letters) *)
(* or in several (Wides).                                                  *)
(*                                                                         *)
(* A definition marked "Faulty" is no part of the parser: it is what the   *)
(* definition after it would be with a plausible mistake.                  *)
(***************************************************************************)
EXTENDS Integers, SequencesExt, FiniteSetsExt

CONSTANTS Letters, Wides

Backslash == "backslash"
Apostrophe == "apostrophe"
Space == "space"
Quote == "quote"
Special == {Backslash, Apostrophe, Space, Quote}

ASSUME CharactersAssumption ==
  Letters \cap Wides = {} /\ (Letters \cup Wides) \cap Special = {}

Char == Letters \cup Wides \cup Special

Word == Seq(Char)

-----------------------------------------------------------------------------
(* The parser.  open is expectRightQuote; last is lastCh, or "?" after a   *)
(* pair of backslashes.                                                    *)

Start == [parts |-> <<>>, item |-> <<>>, open |-> FALSE, last |-> "none", ok |-> TRUE]

Add(p, ch) == [p EXCEPT !.item = Append(p.item, ch)]

EndItem(p) == [p EXCEPT !.parts = Append(p.parts, p.item), !.item = <<>>]

Refuse(p) == [p EXCEPT !.ok = FALSE]

\* Faulty: a space always ends an item, also an empty one.
SplitAtSpace(p) == IF p.open THEN Add(p, Space) ELSE EndItem(p)

AtSpace(p) ==
  IF p.open THEN Add(p, Space)
  ELSE IF p.item # <<>> THEN EndItem(p)
  ELSE p

\* Faulty: an empty word in quotes is dropped.
AtQuoteNoEmpty(p) ==
  IF ~p.open THEN [p EXCEPT !.open = TRUE]
  ELSE IF p.last = Backslash THEN Add(p, Quote)
  ELSE IF p.item = <<>> THEN [p EXCEPT !.open = FALSE]
  ELSE EndItem([p EXCEPT !.open = FALSE])

\* A quote that opens does not end the item before it.
AtQuote(p) ==
  IF ~p.open THEN [p EXCEPT !.open = TRUE]
  ELSE IF p.last = Backslash THEN Add(p, Quote)
  ELSE EndItem([p EXCEPT !.open = FALSE])

Accept(p, ch) ==
  CASE ch = Backslash  -> IF ~p.open THEN Refuse(p)
                          ELSE IF p.last = Backslash THEN Add(p, Backslash) ELSE p
    [] ch = Apostrophe -> IF ~p.open THEN Refuse(p) ELSE Add(p, Apostrophe)
    [] ch = Space      -> AtSpace(p)
    [] ch = Quote      -> AtQuote(p)
    [] OTHER           -> Add(p, ch)

ReadChar(p, ch) ==
  IF ~p.ok THEN p
  ELSE [Accept(p, ch) EXCEPT
          !.last = IF p.last = Backslash /\ ch = Backslash THEN "?" ELSE ch]

\* Faulty: the last item is only there if a space follows it.
AtEndOpen(p) == IF p.open THEN Refuse(p) ELSE p

AtEnd(p) ==
  IF p.open THEN Refuse(p)
  ELSE IF p.item # <<>> THEN EndItem(p)
  ELSE p

\* The end is noticed at the rune that starts at the last byte: not at all if
\* the last rune has several.
EndNoticed(line) == line # <<>> /\ Last(line) \notin Wides

\* The loop, from any state of the parser.
ReadAll(p, line) ==
  LET read[k \in 0..Len(line)] ==
        IF k = 0 THEN p ELSE ReadChar(read[k - 1], line[k])
  IN  read[Len(line)]

ParseCommandLine(line) ==
  LET p == ReadAll(Start, line)
      q == IF p.ok /\ EndNoticed(line) THEN AtEnd(p) ELSE p
  IN  [ok |-> q.ok, parts |-> q.parts]

-----------------------------------------------------------------------------
(* What a line means, said in another way. *)

\* The word as it is to be typed.
Escaped(word) ==
  FlattenSeq([k \in DOMAIN word |->
    IF word[k] \in {Backslash, Quote} THEN <<Backslash, word[k]>> ELSE <<word[k]>>])

InQuotes(word) == <<Quote>> \o Escaped(word) \o <<Quote>>

LineOf(words) ==
  FlattenSeq([k \in DOMAIN words |->
    IF k = 1 THEN InQuotes(words[k]) ELSE <<Space>> \o InQuotes(words[k])])

\* Where no character is special but the space, a word starts after each space
\* and ends before the next.
StartsWord(line, k) == line[k] # Space /\ (k = 1 \/ line[k - 1] = Space)

IsWordAt(line, k, word) ==
  \E e \in k..Len(line) :
    /\ word = SubSeq(line, k, e)
    /\ \A m \in k..e : line[m] # Space
    /\ e = Len(line) \/ line[e + 1] = Space

\* The words of the line are these, all of them and in their order.
ArePlainWords(line, words) ==
  \E first \in [DOMAIN words -> DOMAIN line] :
    /\ \A i, j \in DOMAIN words : i < j => first[i] < first[j]
    /\ {first[i] : i \in DOMAIN words} = {k \in DOMAIN line : StartsWord(line, k)}
    /\ \A i \in DOMAIN words : IsWordAt(line, first[i], words[i])

\* The characters that stand for themselves everywhere.
Ordinary(s) ==
  FlattenSeq([k \in DOMAIN s |-> IF s[k] \in Special THEN <<>> ELSE <<s[k]>>])

=============================================================================
