----------------------------- MODULE DraftRows -----------------------------
(***************************************************************************)
(* From audio to rows: segment_track (l0_draft_engine/pipeline.py) cuts each *)
(* lane into segments at its silences, transcribe (l0_draft_engine/engine.py) *)
(* has each segment recognised and keeps the words that lie within it, and    *)
(* draft, a later request, gathers the words into rows, one for a segment or  *)
(* one for each row the client wants preserved.                             *)
(*                                                                         *)
(* Frames and samples are counted from 0.  A time is a number of samples;    *)
(* twice a midpoint is compared with twice a boundary.                      *)
(***************************************************************************)
EXTENDS Integers, Sequences, FiniteSets, SequencesExt, FiniteSetsExt

CONSTANTS
  Tracks,        (* the two lanes, in the order of the payload              *)
  Loudness,      (* of each lane: whether each frame reaches the threshold   *)
  FrameSamples,  (* samples in a frame; the last frame may have fewer       *)
  FrameCount,    (* samples in a track                                      *)
  Bridge,        (* bridge_gap_ms, in frames                                *)
  Minimum,       (* minimum_activity_ms, in frames                          *)
  Silence,       (* coarse_silence_ms, in frames                            *)
  Padding,       (* coarse_padding_ms, in samples                           *)
  Speech,        (* what the recognizer may hear: spans from the segment's   *)
                 (* start                                                   *)
  MaxWords,      (* bound on the words heard in a segment                   *)
  Preserved      (* the preserveRows a client may send                      *)

Lanes == {Tracks[i] : i \in 1..Len(Tracks)}
FrameTotal == (FrameCount + FrameSamples - 1) \div FrameSamples
Frames == 0..(FrameTotal - 1)

Span == [start : Int, end : Int]

(* What the schema lets pass: the rows are on the lanes of the payload.       *)
PreserveRow ==
  [lane : Lanes, start : Int, end : Int, text : {"none", "plain", "markup"}]

ASSUME RowsAssumption ==
  /\ Tracks \in Seq(Lanes)
  /\ Loudness \in [Lanes -> SUBSET [Frames -> BOOLEAN]]
  /\ FrameSamples \in Nat \ {0} /\ FrameCount \in Nat \ {0}
  /\ Bridge \in Nat \ {0} /\ Minimum \in Nat \ {0} /\ Silence \in Nat \ {0}
  /\ Padding \in Nat /\ MaxWords \in Nat
  /\ Speech \subseteq Span /\ IsFiniteSet(Speech)
  /\ Preserved \subseteq Seq(PreserveRow)

VARIABLES
  loud,      (* value >= threshold, for every frame of a lane                *)
  segments,  (* coarse_by_lane                                              *)
  words,     (* words_by_lane                                               *)
  heard,     (* how many segments of the lanes were transcribed             *)
  stage,     (* what was done last                                          *)
  rows       (* of the answer                                               *)

vars == <<loud, segments, words, heard, stage, rows>>

Init ==
  /\ loud \in {l \in [Lanes -> UNION {Loudness[lane] : lane \in Lanes}] :
                 \A lane \in Lanes : l[lane] \in Loudness[lane]}
  /\ segments = [lane \in Lanes |-> <<>>]
  /\ words = [lane \in Lanes |-> {}]
  /\ heard = [lane \in Lanes |-> 0]
  /\ stage = "prepared"
  /\ rows = <<>>

(* The members of S, each after those that R relates to it: sorted.         *)
Ranked(S, R) ==
  [i \in 1..Cardinality(S) |->
     CHOOSE x \in S : Cardinality({y \in S : <<y, x>> \in R}) = i - 1]

Sorted(S, before(_, _)) == Ranked(S, {p \in S \X S : before(p[1], p[2])})

----------------------------------------------------------------------------
(* segment_track.                                                          *)

(* The longest stretches of frames that have the value, ends excluded.       *)
Runs(values, value) ==
  {run \in [start : Frames, end : 1..FrameTotal] :
     /\ run.start < run.end
     /\ \A f \in run.start..(run.end - 1) : values[f] = value
     /\ run.start > 0 => values[run.start - 1] # value
     /\ run.end < FrameTotal => values[run.end] # value}

Length(run) == run.end - run.start
In(f, run) == run.start =< f /\ f < run.end

(* Short silences are bridged, unless they are at either end.               *)
Bridged(values) ==
  [f \in Frames |->
     \/ values[f]
     \/ \E gap \in Runs(values, FALSE) :
          In(f, gap) /\ gap.start > 0 /\ gap.end < FrameTotal /\ Length(gap) =< Bridge]

(* Short bursts are removed.                                               *)
WithoutBursts(values) ==
  [f \in Frames |->
     values[f] /\ ~\E run \in Runs(values, TRUE) : In(f, run) /\ Length(run) < Minimum]

(* Mutant: the bursts are removed before they can be bridged.               *)
SmoothBurstsFirst(values) == Bridged(WithoutBursts(values))

Smooth(values) == WithoutBursts(Bridged(values))

(* A track is split in the middle of each long silence within its speech.    *)
Boundaries(active) ==
  LET spoken == Runs(active, TRUE)
      first == Min({run.start : run \in spoken})
      last == Max({run.end : run \in spoken})
      split == {(gap.start + gap.end) \div 2 :
                  gap \in {g \in Runs(active, FALSE) :
                             Length(g) >= Silence /\ g.start > first /\ g.end < last}}
  IN  Sorted({first * FrameSamples} \cup {f * FrameSamples : f \in split}
               \cup {Min({FrameCount, last * FrameSamples})}, <)

(* Mutant: the padding reaches over the boundaries.                         *)
PaddedOver(active, left, right) ==
  LET within == {f \in Frames : active[f] /\ left =< f * FrameSamples /\ f * FrameSamples < right}
  IN  [start |-> Max({0, Min(within) * FrameSamples - Padding}),
       end |-> Min({FrameCount, (Max(within) + 1) * FrameSamples + Padding})]

(* From the first to the last active frame between two boundaries, padded.   *)
Padded(active, left, right) ==
  LET within == {f \in Frames : active[f] /\ left =< f * FrameSamples /\ f * FrameSamples < right}
  IN  [start |-> Max({left, Min(within) * FrameSamples - Padding}),
       end |-> Min({right, FrameCount, (Max(within) + 1) * FrameSamples + Padding})]

Segments(values) ==
  LET active == Smooth(values)
      bounds == Boundaries(active)
  IN  IF Runs(active, TRUE) = {} THEN <<>>
      ELSE [i \in 1..(Len(bounds) - 1) |-> Padded(active, bounds[i], bounds[i + 1])]

SegmentTracks ==
  /\ stage = "prepared"
  /\ segments' = [lane \in Lanes |-> Segments(loud[lane])]
  /\ stage' = "segmented"
  /\ UNCHANGED <<loud, words, heard, rows>>

----------------------------------------------------------------------------
(* transcribe.                                                             *)

(* Mutant: words are kept that end in a later segment.                      *)
BeginsWithin(word, segment) == word.start >= segment.start /\ word.start < segment.end

Within(word, segment) ==
  word.start >= segment.start /\ word.end > word.start /\ word.end =< segment.end

(* Lane after lane, the recognizer gets the samples of a segment.           *)
TranscribeSegment(lane) ==
  /\ stage = "segmented"
  /\ heard[lane] < Len(segments[lane])
  /\ \A i, j \in 1..Len(Tracks) :
       Tracks[j] = lane /\ i < j => heard[Tracks[i]] = Len(segments[Tracks[i]])
  /\ LET segment == segments[lane][heard[lane] + 1]
     IN  \E spans \in {s \in SUBSET Speech : Cardinality(s) =< MaxWords} :
           words' = [words EXCEPT ![lane] = @ \cup
             {word \in {[start |-> segment.start + span.start,
                         end |-> segment.start + span.end] : span \in spans} :
                Within(word, segment)}]
  /\ heard' = [heard EXCEPT ![lane] = @ + 1]
  /\ UNCHANGED <<loud, segments, stage, rows>>

Transcribed ==
  /\ stage = "segmented"
  /\ \A lane \in Lanes : heard[lane] = Len(segments[lane])
  /\ stage' = "transcribed"
  /\ UNCHANGED <<loud, segments, words, heard, rows>>

(* The tokens of a lane, in the order of the response.                      *)
Tokens(lane) ==
  Sorted(words[lane],
         LAMBDA v, w : v.start < w.start \/ (v.start = w.start /\ v.end < w.end))

----------------------------------------------------------------------------
(* draft.                                                                  *)

(* bisect_left, on whatever order it is given.                              *)
BisectLeft(values, x) ==
  LET search[bounds \in (0..Len(values)) \X (0..Len(values))] ==
        LET middle == (bounds[1] + bounds[2]) \div 2
        IN  IF bounds[1] >= bounds[2] THEN bounds[1]
            ELSE IF values[middle + 1] < x THEN search[<<middle + 1, bounds[2]>>]
            ELSE search[<<bounds[1], middle>>]
  IN  search[<<0, Len(values)>>]

(* Mutant: the row that ends in the middle of a word has it, too.            *)
WordsUpTo(lane, span) ==
  LET tokens == Tokens(lane)
      middles == [i \in DOMAIN tokens |-> tokens[i].start + tokens[i].end]
  IN  SubSeq(tokens, BisectLeft(middles, 2 * span.start) + 1,
             BisectLeft(middles, 2 * span.end + 1))

(* The tokens from the first that has its middle in the span.               *)
WordsOf(lane, span) ==
  LET tokens == Tokens(lane)
      middles == [i \in DOMAIN tokens |-> tokens[i].start + tokens[i].end]
  IN  SubSeq(tokens, BisectLeft(middles, 2 * span.start) + 1,
             BisectLeft(middles, 2 * span.end))

(* A row's text is what was spoken, or the text it had.                     *)
Row(lane, span, spoken, text) ==
  [lane |-> lane, start |-> span.start, end |-> span.end, words |-> spoken, text |-> text]

(* _group_rows without preserveRows: a row for a segment that has words.     *)
SegmentRows ==
  {row \in UNION {{Row(lane, s, WordsOf(lane, s), "spoken") : s \in ToSet(segments[lane])} :
                  lane \in Lanes} :
     row.words # <<>>}

Place(lane) == CHOOSE i \in 1..Len(Tracks) : Tracks[i] = lane

Before(r, s) ==
  \/ r.start < s.start
  \/ r.start = s.start /\ Place(r.lane) < Place(s.lane)

(* There is an answer if every lane that has words has a row, and one has.   *)
Draft ==
  /\ stage = "transcribed"
  /\ LET grouped == SegmentRows
         answered == /\ grouped # {}
                     /\ \A lane \in Lanes : words[lane] # {} => \E r \in grouped : r.lane = lane
     IN  /\ rows' = IF answered THEN Sorted(grouped, Before) ELSE <<>>
         /\ stage' = IF answered THEN "drafted" ELSE "refused"
  /\ UNCHANGED <<loud, segments, words, heard>>

(* With preserveRows: the client's rows, in its order.  A row keeps its text *)
(* if that has markup, or if it has no words, and must then have a text.     *)
Kept(row) == row.text = "markup" \/ WordsOf(row.lane, row) = <<>>

RowOf(row) ==
  IF Kept(row) THEN Row(row.lane, row, <<>>, row.text)
  ELSE Row(row.lane, row, WordsOf(row.lane, row), "spoken")

DraftPreserved(asked) ==
  /\ stage = "transcribed"
  /\ LET answered == \A i \in DOMAIN asked : Kept(asked[i]) => asked[i].text # "none"
     IN  /\ rows' = IF answered THEN [i \in DOMAIN asked |-> RowOf(asked[i])] ELSE <<>>
         /\ stage' = IF answered THEN "preserved" ELSE "refused"
  /\ UNCHANGED <<loud, segments, words, heard>>

(* Model failures: the caller gets an error.                               *)
ModelFails ==
  /\ stage \in {"segmented", "transcribed"}
  /\ stage' = "refused"
  /\ UNCHANGED <<loud, segments, words, heard, rows>>

Next ==
  \/ SegmentTracks
  \/ \E lane \in Lanes : TranscribeSegment(lane)
  \/ Transcribed
  \/ Draft
  \/ \E asked \in Preserved : DraftPreserved(asked)
  \/ ModelFails

Spec == Init /\ [][Next]_vars

----------------------------------------------------------------------------
(* Properties.                                                             *)

(* Two loud frames belong together if no silence between them is longer than *)
(* the bridge.                                                             *)
Together(values, f, g) ==
  /\ values[f] /\ values[g]
  /\ \A h \in Min({f, g})..Max({f, g}) :
       \E i \in h..Min({h + Bridge, Max({f, g})}) : values[i]

(* Speech: a loud frame among others that reach over the minimum.           *)
Spoken(values, f) ==
  \E g, h \in Frames :
    g =< f /\ f =< h /\ h - g + 1 >= Minimum
      /\ Together(values, g, f) /\ Together(values, f, h)

(* Every frame of speech is in one segment, and in whole; the segments come  *)
(* in order, do not overlap, and stay in the track.                         *)
SpeechInOneSegment ==
  stage # "prepared" => \A lane \in Lanes :
    /\ \A f \in Frames : Spoken(loud[lane], f) =>
         \E i \in DOMAIN segments[lane] :
           /\ segments[lane][i].start =< f * FrameSamples
           /\ segments[lane][i].end >= Min({FrameCount, (f + 1) * FrameSamples})
    /\ \A i \in DOMAIN segments[lane] :
         /\ 0 =< segments[lane][i].start
         /\ segments[lane][i].start < segments[lane][i].end
         /\ segments[lane][i].end =< FrameCount
         /\ i > 1 => segments[lane][i - 1].end =< segments[lane][i].start

RowsWith(lane, word) ==
  {r \in DOMAIN rows : rows[r].lane = lane /\ word \in ToSet(rows[r].words)}

(* What was recognised is drafted: every word is in one row, that of the     *)
(* segment it was heard in, in whatever order the recognizer's spans are;    *)
(* and words are never refused.                                            *)
WordsInOneRow ==
  /\ stage = "drafted" =>
       \A lane \in Lanes : \A word \in words[lane] :
         /\ Cardinality(RowsWith(lane, word)) = 1
         /\ \A r \in RowsWith(lane, word) : Within(word, rows[r])
  /\ stage = "transcribed" =>
       \A lane \in Lanes : words[lane] # {} => \E r \in SegmentRows : r.lane = lane

(* A preserved row has the words that have their middle in it, when no word  *)
(* is said within another.                                                 *)
Unnested(lane) ==
  \A v, w \in words[lane] : v.start < w.start => v.start + v.end =< w.start + w.end

PreservedHaveTheirs ==
  stage = "preserved" => \A r \in DOMAIN rows :
    rows[r].text # "markup" /\ Unnested(rows[r].lane) =>
      ToSet(rows[r].words) =
        {w \in words[rows[r].lane] :
           2 * rows[r].start =< w.start + w.end /\ w.start + w.end < 2 * rows[r].end}

NothingLost == SpeechInOneSegment /\ WordsInOneRow /\ PreservedHaveTheirs

=============================================================================
