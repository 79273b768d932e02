------------------------------ MODULE Redaction ------------------------------
(***************************************************************************)
(* appsec/iast/vulnerabilities-formatter/: the report of the               *)
(* vulnerabilities of a request, whose evidence tells tainted text from    *)
(* text of the program, and hides what is sensitive of both.               *)
(*                                                                         *)
(* An evidence is the text of the positions 0 .. Length-1, each with a     *)
(* character of its own.  A range [start, end) of it is tainted by a       *)
(* source, whose value is the text of the range with something before it,  *)
(* or another text if the value was transformed.  Sensitive ranges come    *)
(* from an analyzer: what their regular expressions match does not         *)
(* overlap, and is in order.                                               *)
(***************************************************************************)
EXTENDS Integers, Sequences, FiniteSets, SequencesExt, FiniteSetsExt

CONSTANTS
    Length,  \* the length of an evidence
    Reports  \* what the first, the second .. vulnerability of a report may be:
             \* [ranges, sensitive, params], with a request parameter for each
             \* range: [name, sensible, before, kept]

\* Ranges of an evidence, which are in order and do not overlap.
TextRanges == [start : 0 .. Length, end : 0 .. Length]
Sorted(ranges) ==
    \A k \in DOMAIN ranges :
        /\ ranges[k].start \leq ranges[k].end
        /\ \A j \in 1 .. k - 1 : ranges[j].end \leq ranges[k].start

Params == [name : STRING, sensible : BOOLEAN, before : Seq(Int), kept : BOOLEAN]

ASSUME ReportsAssumption ==
    /\ Length \in Nat
    /\ Reports \in Seq(SUBSET [ranges : Seq(TextRanges), sensitive : Seq(TextRanges),
                               params : Seq(Params)])
    /\ \A n \in DOMAIN Reports : \A e \in Reports[n] :
          Sorted(e.ranges) /\ Sorted(e.sensitive) /\ Len(e.params) = Len(e.ranges)

VARIABLES
    formatted,  \* vulnerabilities formatted so far
    sources,   \* the sources of the report: [param, text, redacted, deleted]
    phase,     \* "idle", "loop" or "done" with the last vulnerability
    evidence,  \* its evidence: [ranges, sensitive, params, indexes]
    at,        \* i
    start,     \* start
    tainted,   \* the ranges left; the first is nextTainted
    sensitive, \* the sensitive ranges left; the first is nextSensitive
    contexts,  \* redactedSourcesContext: source -> ranges
    redactedSources,
    valueParts

formatVars == <<formatted, sources, phase, evidence, at, start, tainted, sensitive, contexts,
                redactedSources, valueParts>>

-----------------------------------------------------------------------------
(* range-utils.ts                                                          *)

contains(container, contained) ==
    container.start \leq contained.start /\ container.end \geq contained.end

intersects(a, b) == b.start < a.end /\ b.end > a.start

\* What is left of a range: nothing, one side of it or both.
remove(range, away) ==
    IF ~intersects(range, away) THEN <<range>>
    ELSE IF contains(away, range) THEN <<>>
    ELSE (IF away.start > range.start THEN <<[start |-> range.start, end |-> away.start]>> ELSE <<>>)
         \o (IF away.end < range.end THEN <<[start |-> away.end, end |-> range.end]>> ELSE <<>>)

-----------------------------------------------------------------------------
(* Texts: the character at position k is k, and others are negative.       *)

Least(a, b) == IF a < b THEN a ELSE b
Positive(n) == IF n < 0 THEN 0 ELSE n

\* String.substring, whose bounds are clamped and put in order.
Sub(text, a, b) ==
    LET x == Least(Positive(a), Len(text))
        y == Least(Positive(b), Len(text))
    IN SubSeq(text, Least(x, y) + 1, IF x < y THEN y ELSE x)

Value == [k \in 1 .. Length |-> k - 1]

\* indexOf: where a text is in another, or -1.
IndexOf(text, part) ==
    LET places == {k \in 0 .. Len(text) - Len(part) : SubSeq(text, k + 1, k + Len(part)) = part}
    IN IF places = {} THEN -1 ELSE Min(places)

\* The value of a parameter that taints a range: the program may have made
\* the range of it by other means than cutting it out.
SourceText(param, range) ==
    param.before \o (IF param.kept THEN Sub(Value, range.start, range.end)
                     ELSE Sub(Value, range.start + 1, range.end))

-----------------------------------------------------------------------------
(* vulnerabilities-formatter/index.ts                                      *)

NoEvidence == [ranges |-> <<>>, sensitive |-> <<>>, params |-> <<>>, indexes |-> <<>>]

FormatInit ==
    /\ formatted = 0
    /\ sources = <<>>
    /\ phase = "idle"
    /\ evidence = NoEvidence
    /\ at = 0 /\ start = 0
    /\ tainted = <<>> /\ sensitive = <<>>
    /\ contexts = <<>>
    /\ redactedSources = {}
    /\ valueParts = <<>>

\* toJson: a source is known by its origin, name and value; a redacted one has
\* lost its value, and is not found again.
SameSource(source, new) ==
    source.param = new.param /\ ~source.deleted /\ source.text = new.text

Registered(known, new) ==
    IF \E k \in DOMAIN known : SameSource(known[k], new) THEN known ELSE Append(known, new)

PlaceOf(known, new) == Min({k \in DOMAIN known : SameSource(known[k], new)})

\* The sources of a report when those of a vulnerability are added.
Known(news) ==
    LET known[k \in 0 .. Len(news)] ==
            IF k = 0 THEN sources ELSE Registered(known[k - 1], news[k])
    IN known[Len(news)]

\* The next vulnerability, with parameters that taint its ranges.
Begin(e) ==
    LET news == [k \in DOMAIN e.ranges |->
                   [param |-> e.params[k], text |-> SourceText(e.params[k], e.ranges[k]),
                    redacted |-> FALSE, deleted |-> FALSE]]
        all == Known(news)
    IN /\ phase' = "loop"
       /\ formatted' = formatted + 1
       /\ sources' = all
       /\ evidence' = [ranges |-> e.ranges, sensitive |-> e.sensitive, params |-> e.params,
                       indexes |-> [k \in DOMAIN news |-> PlaceOf(all, news[k])]]
       /\ at' = 0 /\ start' = 0
       /\ tainted' = e.ranges
       /\ sensitive' = e.sensitive
       /\ contexts' = [k \in DOMAIN all |-> <<>>]
       /\ redactedSources' = {}
       /\ valueParts' = <<>>

-----------------------------------------------------------------------------
(* sensitive-handler.ts                                                    *)

\* writeValuePart.
Clear(text) == IF text = <<>> THEN <<>> ELSE <<[redacted |-> FALSE, text |-> text]>>
Hidden == [redacted |-> TRUE, text |-> <<>>]

\* The tainted range that comes next, and its source.
Place == Len(evidence.ranges) - Len(tainted) + 1
SourceIndex == evidence.indexes[Place]

Relative(range) == [start |-> range.start - tainted[1].start, end |-> range.end - tainted[1].start]

\* redactSource: the source is redacted by the first vulnerability to do so.
RedactSource(s, ranges) ==
    /\ redactedSources' = IF ranges # <<>> /\ ~sources[s].redacted
                          THEN redactedSources \cup {s} ELSE redactedSources
    /\ sources' = IF ranges # <<>> THEN [sources EXCEPT ![s].redacted = TRUE] ELSE sources

\* writeRedactedValuePart of a source: what is left of the part, from offset
\* on, loses the text of one context after the other.  What a context hides is
\* as long as its placeholder, the stars of a part that the source has not.
Hide(state, context) ==
    LET text == Sub(state.text, context.start - state.offset, Len(state.text))
        before == Sub(state.text, 0, context.start - state.offset)
        ahead == context.start > 0
        rest == IF ahead THEN text ELSE state.text
        offset == IF ahead THEN context.start ELSE state.offset
        hidden == Sub(rest, context.start - offset, context.end - offset)
        place == IndexOf(state.source, hidden)
        length == IF place > -1
                  THEN Len(Sub(state.placeholder, place, place + Len(hidden)))
                  ELSE Len(Sub(state.placeholder, context.start, context.end))
    IN [state EXCEPT
          !.parts = @ \o (IF ahead THEN Clear(before) ELSE <<>>) \o <<Hidden>>,
          !.text = Sub(rest, length, Len(rest)),
          !.offset = offset + length]

\* Where it starts: the placeholder is the source's if that has the part.
Unhidden(text, source) ==
    [parts |-> <<>>, text |-> text, offset |-> 0, source |-> source,
     placeholder |-> IF IndexOf(source, text) > -1 THEN source ELSE text]

\* A variant of PartsOf: contexts count from the start of what is left.
PartsOfUnshifted(text, source, ranges) ==
    LET state[k \in 0 .. Len(ranges)] ==
            IF k = 0 THEN Unhidden(text, source)
            ELSE Hide([state[k - 1] EXCEPT !.offset = 0], ranges[k])
        end == state[Len(ranges)]
    IN end.parts \o Clear(end.text)

PartsOf(text, source, ranges) ==
    LET state[k \in 0 .. Len(ranges)] ==
            IF k = 0 THEN Unhidden(text, source) ELSE Hide(state[k - 1], ranges[k])
        end == state[Len(ranges)]
    IN end.parts \o Clear(end.text)

\* The while loop of toRedactedJson: the sensitive ranges within the tainted
\* one, then the rest of one that ends after it.
Within ==
    CHOOSE n \in 0 .. Len(sensitive) :
        /\ \A k \in 1 .. n : contains(tainted[1], sensitive[k])
        /\ n = Len(sensitive) \/ ~contains(tainted[1], sensitive[n + 1])
Inside == SubSeq(sensitive, 1, Within)
Filled(ranges) ==  \* those that are not empty
    LET filled[k \in 0 .. Len(ranges)] ==
            IF k = 0 THEN <<>>
            ELSE IF ranges[k].start = ranges[k].end THEN filled[k - 1]
            ELSE Append(filled[k - 1], ranges[k])
    IN filled[Len(ranges)]
After == SubSeq(sensitive, Within + 1, Len(sensitive))
Crossing == After # <<>> /\ intersects(After[1], tainted[1])

\* A turn of the loop where a tainted range starts.
TaintedTurn ==
    /\ phase = "loop"
    /\ at < Length
    /\ tainted # <<>> /\ tainted[1].start = at
    /\ LET s == SourceIndex
           source == sources[s]
           cut == Filled(Inside) \o (IF Crossing THEN <<After[1]>> ELSE <<>>)
           hides == contexts[s] \o [k \in DOMAIN cut |-> Relative(cut[k])]
           sensible == source.param.sensible
           redacted == redactedSources \cup
                         (IF (cut # <<>> \/ sensible) /\ ~source.redacted THEN {s} ELSE {})
           text == Sub(Value, at, tainted[1].end)
       IN /\ valueParts' =
                valueParts \o Clear(Sub(Value, start, at))
                \o [k \in 1 .. Len(Inside) - Len(Filled(Inside)) |-> Hidden]
                \o (IF s \notin redacted THEN Clear(text)
                    ELSE IF sensible THEN <<Hidden>>
                    ELSE PartsOf(text, source.text, hides))
          /\ redactedSources' = redacted
          /\ sources' = IF cut # <<>> \/ sensible
                        THEN [sources EXCEPT ![s].redacted = TRUE] ELSE sources
          /\ contexts' = [contexts EXCEPT ![s] = IF s \in redacted THEN <<>> ELSE hides]
    /\ sensitive' = IF Crossing THEN remove(After[1], tainted[1]) \o Tail(After) ELSE After
    /\ at' = tainted[1].end
    /\ start' = tainted[1].end
    /\ tainted' = Tail(tainted)
    /\ UNCHANGED <<formatted, phase, evidence>>

\* A turn where a sensitive range starts in text of the program: what of it is
\* tainted is hidden there, and the rest after it.
SensitiveTurn ==
    /\ phase = "loop"
    /\ at < Length
    /\ ~(tainted # <<>> /\ tainted[1].start = at)
    /\ sensitive # <<>> /\ sensitive[1].start = at
    /\ LET reaches == tainted # <<>> /\ intersects(sensitive[1], tainted[1])
           entries == IF reaches THEN remove(sensitive[1], tainted[1]) ELSE <<sensitive[1]>>
       IN /\ valueParts' = Append(valueParts \o Clear(Sub(Value, start, at)), Hidden)
          /\ at' = entries[1].end
          /\ start' = entries[1].end
          /\ sensitive' = Tail(entries) \o Tail(sensitive)
          /\ IF reaches
             THEN /\ RedactSource(SourceIndex, <<sensitive[1]>>)
                  /\ contexts' = [contexts EXCEPT ![SourceIndex] =
                                    Append(@, Relative(sensitive[1]))]
             ELSE UNCHANGED <<redactedSources, sources, contexts>>
    /\ UNCHANGED <<formatted, phase, evidence, tainted>>

PlainTurn ==
    /\ phase = "loop"
    /\ at < Length
    /\ ~(tainted # <<>> /\ tainted[1].start = at)
    /\ ~(sensitive # <<>> /\ sensitive[1].start = at)
    /\ at' = at + 1
    /\ UNCHANGED <<formatted, sources, phase, evidence, start, tainted, sensitive, contexts,
                   redactedSources, valueParts>>

\* The end of the loop, and getRedactedValueParts: redacted sources lose
\* their value.
Finish ==
    /\ phase = "loop"
    /\ at \geq Length
    /\ phase' = "done"
    /\ sources' = [k \in DOMAIN sources |->
                     IF k \in redactedSources THEN [sources[k] EXCEPT !.deleted = TRUE] ELSE sources[k]]
    /\ start' = Length
    /\ valueParts' = valueParts \o Clear(Sub(Value, start, Length))
    /\ UNCHANGED <<formatted, evidence, at, tainted, sensitive, contexts, redactedSources>>

\* formatVulnerability returns to toJson: only the sources are kept.
Return ==
    /\ phase = "done"
    /\ phase' = "idle"
    /\ evidence' = NoEvidence
    /\ at' = 0 /\ start' = 0
    /\ tainted' = <<>> /\ sensitive' = <<>>
    /\ contexts' = <<>>
    /\ redactedSources' = {}
    /\ valueParts' = <<>>
    /\ UNCHANGED <<formatted, sources>>

FormatNext ==
    \/ phase = "idle" /\ formatted < Len(Reports) /\ \E e \in Reports[formatted + 1] : Begin(e)
    \/ TaintedTurn
    \/ SensitiveTurn
    \/ PlainTurn
    \/ Finish
    \/ Return

FormatSpec == FormatInit /\ [][FormatNext]_formatVars

-----------------------------------------------------------------------------
(* Properties.                                                             *)

Holds(range, p) == range.start \leq p /\ p < range.end

\* What a reader of the report must not see: the sensitive ranges, and what
\* comes from a parameter whose name or value is sensible.
Secret(p) ==
    \/ \E k \in DOMAIN evidence.sensitive : Holds(evidence.sensitive[k], p)
    \/ \E k \in DOMAIN evidence.ranges :
          evidence.params[k].sensible /\ Holds(evidence.ranges[k], p)

\* The characters that the parts of a report show, and that they are in order.
Shown(parts) == UNION {ToSet(parts[k].text) : k \in DOMAIN parts}
InTextOrder(parts) ==
    \A j, k \in DOMAIN parts : \A m \in DOMAIN parts[j].text, n \in DOMAIN parts[k].text :
        j < k \/ (j = k /\ m < n) => parts[j].text[m] < parts[k].text[n]

\* The parts in clear of an evidence are the text that is not secret, all of
\* it and in order, however sensitive and tainted ranges contain, cross and
\* touch each other, and whatever an earlier vulnerability of the report has
\* redacted; and a source with secret text loses its value.  The code breaks
\* this where a source does not contain the text that it taints: a placeholder
\* may then be shorter than what it hides (writeRedactedValuePart).
EvidenceScrubbed ==
    phase = "done" /\ (\A k \in DOMAIN evidence.params : evidence.params[k].kept) =>
        /\ Shown(valueParts) = {p \in 0 .. Length - 1 : ~Secret(p)}
        /\ InTextOrder(valueParts)
        /\ \A k \in DOMAIN evidence.ranges :
              (\E p \in 0 .. Length - 1 : Holds(evidence.ranges[k], p) /\ Secret(p)) =>
                  sources[evidence.indexes[k]].deleted
=============================================================================
