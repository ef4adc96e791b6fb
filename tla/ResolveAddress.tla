--------------------------- MODULE ResolveAddress --------------------------
(***************************************************************************)
(* How the place of a frame is found (src/stacktrace/src/Stacktrace.cpp:   *)
(* 33-161): a command is run, its output is read into buffers of fixed     *)
(* size, and ExtractFileLine looks for file:line in what was read.         *)
(*                                                                         *)
(* Text is a sequence of tokens: a letter stands for a run of characters   *)
(* that mean nothing to ExtractFileLine, "9" for a digit, "_" for a space, *)
(* "@" for " at ", and every other token for itself.                       *)
(***************************************************************************)
EXTENDS Naturals, Sequences, SequencesExt

CONSTANT LineLimit      \* the tokens of a line that fgets puts in a buffer

(* It holds a file of at least one token, ":" and a number.                *)
ASSUME LineLimitAssumption == LineLimit \in Nat /\ LineLimit > 3

NL == "\n"
Spaces == {"_", "@"}

(* An answer of addr2line or atos: the function's name, its file and line, *)
(* and what is printed behind them.  A missing number is printed as "?".   *)
(* Some have in them what ExtractFileLine looks for: a function can be the *)
(* lambda of a line ("f(lambda at p:9:9)"), a file can be in a directory   *)
(* whose name has spaces, parentheses or a colon.  The longest ones are    *)
(* about as long as the buffer.                                            *)
Names == {<<"f">>, <<"n", ":", ":", "f", "(", ")">>,
          <<"f", "(", "l", "@", "p", ":", "9", ":", "9", ")">>,
          [i \in 1..(LineLimit - 1) |-> "f"], [i \in 1..LineLimit |-> "f"]}
Files == {<<"p">>, <<"?">>, <<"p", "_", "p">>, <<"p", "@", "p">>, <<"p", "(", "p", ")">>,
          <<"p", ":", "9">>, [i \in 1..(LineLimit - 3) |-> "p"]}
Notes == {<<>>, <<"_", "(", "d", "_", "9", ")">>}
Answers == [name : Names, file : Files, number : {<<"9">>, <<"?">>, <<"9", "9">>}, note : Notes]

PlaceIn(a) == a.file \o <<":">> \o a.number

(* addr2line -f prints two lines; atos prints one, which ends in "(file:   *)
(* line)", or in an offset when the place is not known.                    *)
Addr2line(a) == a.name \o <<NL>> \o (PlaceIn(a) \o a.note \o <<NL>>)
Atos(a) ==
    a.name \o <<"_", "(", "l", ")", "_">>
    \o (IF a.number = <<"?">> THEN <<"+", "_", "9">> ELSE <<"(">> \o PlaceIn(a) \o <<")">>)
    \o <<NL>>
----------------------------------------------------------------------------
(* fgets: up to the first line end, or as much as the buffer holds.        *)
Fgets(text) ==
    LET end == SelectInSeq(text, LAMBDA c : c = NL)
    IN  SubSeq(text, 1, IF end \in 1..LineLimit THEN end ELSE Min({LineLimit, Len(text)}))

AfterFgets(text) == SubSeq(text, Len(Fgets(text)) + 1, Len(text))

Chomp(line) == IF line # <<>> /\ Last(line) = NL THEN Front(line) ELSE line

(* The two ways of ResolveAddress; <<>> when the command printed nothing.  *)
ResolvedOnLinux(text) ==
    IF text = <<>> \/ AfterFgets(text) = <<>> THEN <<>>
    ELSE Chomp(Fgets(text)) \o <<"@">> \o Chomp(Fgets(AfterFgets(text)))

ResolvedOnMac(text) == Chomp(Fgets(text))
----------------------------------------------------------------------------
LastColon(s) == SelectLastInSeq(s, LAMBDA c : c = ":")

(* The check that all three formats share: only digits after the last      *)
(* colon, and something before it.  (There may be no digit at all.)        *)
IsFileLine(s) ==
    /\ LastColon(s) > 1
    /\ \A i \in (LastColon(s) + 1)..Len(s) : s[i] = "9"

AfterAt(s) == SubSeq(s, SelectLastInSeq(s, LAMBDA c : c = "@") + 1, Len(s))
HasAt(s) == \E i \in DOMAIN s : s[i] = "@"

OpenParen(s) == SelectLastInSeq(s, LAMBDA c : c = "(")
InParens(s) == SubSeq(s, OpenParen(s) + 1, Len(s) - 1)
EndsInParens(s) == s # <<>> /\ Last(s) = ")" /\ OpenParen(s) > 0

(* The leftmost match of [^\s:]+:\d+, as long as it gets: the first colon   *)
(* that has a digit behind it and something to show in front of it.        *)
InName(c) == c \notin Spaces \cup {":"}
RawColons(s) ==
    {c \in 2..(Len(s) - 1) : s[c] = ":" /\ InName(s[c - 1]) /\ s[c + 1] = "9"}
RawMatch(s) ==
    IF RawColons(s) = {} THEN <<>>
    ELSE LET colon == Min(RawColons(s))
             start == Min({k \in 1..(colon - 1) : \A i \in k..(colon - 1) : InName(s[i])})
             end == Max({k \in (colon + 1)..Len(s) : \A i \in (colon + 1)..k : s[i] = "9"})
         IN  SubSeq(s, start, end)

(* Faulty variant: the first format is taken unchecked.                    *)
ExtractUnchecked(s) ==
    IF HasAt(s) THEN AfterAt(s)
    ELSE IF EndsInParens(s) /\ IsFileLine(InParens(s)) THEN InParens(s)
    ELSE RawMatch(s)

(* The file:line in what a tool printed, or <<>>: behind the last " at ",  *)
(* in parentheses at the very end, or anywhere.                            *)
ExtractFileLine(s) ==
    IF HasAt(s) /\ IsFileLine(AfterAt(s)) THEN AfterAt(s)
    ELSE IF EndsInParens(s) /\ IsFileLine(InParens(s)) THEN InParens(s)
    ELSE RawMatch(s)

(* What it should be: the place of the answer, when it has a line number.  *)
Place(a) == IF a.number = <<"?">> THEN <<>> ELSE PlaceIn(a)

(* The answer's lines are no longer than the buffers.                      *)
FitsAddr2line(a) == Len(a.name) < LineLimit /\ Len(PlaceIn(a) \o a.note) < LineLimit
FitsAtos(a) == Len(Atos(a)) <= LineLimit

(* The answers that a search for file:line can misread.  Of addr2line's: a *)
(* file with " at " in it; one that is followed by a note, so that the     *)
(* first two formats do not apply, and has a space or a colon in it or     *)
(* comes behind a name with a number in it; a number anywhere when the     *)
(* place has none.  Of atos's: a file with a parenthesis in it, and a      *)
(* number in the name when there is no place.                              *)
Numbered(s) == RawColons(s) # {}
MisleadsAddr2line(a) ==
    IF a.number = <<"?">> THEN Numbered(a.name) \/ Numbered(a.file)
    ELSE \/ HasAt(a.file)
         \/ /\ a.note # <<>>
            /\ Numbered(a.name) \/ \E k \in DOMAIN a.file : ~InName(a.file[k])
MisleadsAtos(a) ==
    IF a.number = <<"?">> THEN Numbered(a.name)
    ELSE \E k \in DOMAIN a.file : a.file[k] = "("
============================================================================
