----------------------------- MODULE MCTsSegment -----------------------------
(***************************************************************************)
(* Streams for TsSegment: tables, pictures in one packet and in several, a *)
(* few packets behind them, and a damaged packet anywhere, one more or in  *)
(* the place of another.                                                   *)
(***************************************************************************)
EXTENDS TsSegment

Slice(p, n, r, c) == [NoSlice EXCEPT !.pic = p, !.num = n, !.ref = r, !.poc1 = c, !.first = TRUE]
I(p, id) == [Slice(p, 0, 1, 0) EXCEPT !.idr = TRUE, !.id = id, !.intra = TRUE]
P(p, n) == Slice(p, n, 1, 2 * p)
B(p, n) == Slice(p, n, 0, 2 * p)
Rest(s) == [s EXCEPT !.first = FALSE]   \* a slice that does not begin the picture
Field(s, bottom) == [s EXCEPT !.field = TRUE, !.bottom = bottom]
Sps(rate, poc) == [t |-> "sps", rate |-> rate, structs |-> FALSE, poc |-> poc, set |-> TRUE]
Timing(rate) == [Sps(rate, 0) EXCEPT !.structs = TRUE]
Pps == [t |-> "pps"]
Sei(struct) == [t |-> "sei", struct |-> struct]
Half(x) == [t |-> "cut", nal |-> x]
Other(x) == [t |-> "tail", nal |-> x]

Start(ok, units) == [k |-> "start", units |-> <<[t |-> "header", ok |-> ok]>> \o units]
Pes(units) == Start(TRUE, units)
BadPes(units) == Start(FALSE, units)
Cont(units) == [k |-> "cont", units |-> units]
PatOf(ok, program) == [k |-> "pat", ok |-> ok, program |-> program]
PmtOf(ok, codecOf) == [k |-> "pmt", ok |-> ok, codec |-> codecOf]
Kind(k) == [k |-> k]

GoodTables(c) == <<PatOf(TRUE, TRUE), PmtOf(TRUE, c)>>
Tables == {
    <<PmtOf(TRUE, "h264"), PatOf(TRUE, TRUE), PmtOf(TRUE, "h264")>>,
    <<PatOf(TRUE, TRUE), PmtOf(FALSE, "h264"), PmtOf(TRUE, "h264")>>,
    <<PatOf(FALSE, TRUE), PatOf(TRUE, TRUE), PmtOf(TRUE, "h264")>>,
    <<PatOf(TRUE, FALSE), PatOf(TRUE, TRUE), PmtOf(TRUE, "h264")>>,
    <<PatOf(TRUE, TRUE), PmtOf(TRUE, "")>>}
Trailer == <<Cont(<<More>>), Kind("other"), Kind("other")>>

First(rate) == Pes(<<Sps(rate, 0), Pps, I(1, 0)>>)
Plain == <<Pes(<<Sps(2, 0), Pps, I(1, 0), Rest(I(1, 0))>>), Cont(<<More>>), Pes(<<P(2, 1)>>),
           Kind("other"), Pes(<<B(3, 2)>>), Pes(<<B(4, 2)>>), Pes(<<I(5, 0)>>)>>
(* Pictures of several packets, one whose header two packets share.         *)
Long == <<Pes(<<Sps(2, 0), Pps, Half(I(1, 0))>>), Cont(<<Other(I(1, 0)), Rest(I(1, 0))>>),
          Pes(<<P(2, 1)>>), Pes(<<Half(P(3, 2))>>), Cont(<<Other(P(3, 2)), Rest(P(3, 2))>>),
          Pes(<<>>), Cont(<<I(4, 0)>>), Pes(<<P(5, 1)>>)>>
Bodies == {
    <<First(2), Pes(<<I(2, 1)>>), Pes(<<I(3, 0)>>), Pes(<<P(4, 1)>>), Pes(<<P(5, 2)>>)>>,
    <<Pes(<<Sps(2, 2), Pps, I(1, 0)>>), Pes(<<I(2, 1)>>), Pes(<<I(3, 0)>>), Pes(<<P(4, 1)>>)>>,
    <<Pes(<<Sps(2, 0), Pps, Field(I(1, 0), FALSE)>>), Pes(<<Field(P(1, 0), TRUE)>>),
      Pes(<<Field(P(2, 1), FALSE)>>), Pes(<<Field(P(2, 1), TRUE)>>), Pes(<<Field(P(3, 2), FALSE)>>)>>,
    <<First(2), BadPes(<<Sps(2, 0), P(2, 1)>>), Pes(<<P(3, 2)>>), Pes(<<P(4, 3)>>)>>,
    <<First(2), Cont(<<Rest(I(1, 0))>>), BadPes(<<P(2, 1)>>), Pes(<<P(3, 2)>>), Pes(<<P(4, 3)>>)>>,
    <<First(2), Pes(<<P(2, 1)>>), Pes(<<Sps(3, 0), I(3, 0)>>), Pes(<<P(4, 1)>>), Pes(<<P(5, 2)>>)>>,
    <<Pes(<<Timing(1), Pps, Sei(2), I(1, 0)>>), Pes(<<Sei(3), P(2, 1)>>), Pes(<<Sei(2), P(3, 2)>>),
      Pes(<<P(4, 3)>>)>>,
    <<First(2), Pes(<<B(2, 1)>>), Pes(<<[B(3, 1) EXCEPT !.poc2 = 1]>>), Pes(<<P(4, 1)>>),
      Pes(<<P(5, 2)>>)>>,
    <<Pes(<<Sps(2, 0), I(1, 0)>>), Pes(<<P(2, 1)>>), Pes(<<Pps, B(3, 2)>>), Pes(<<P(4, 3)>>)>>,
    <<First(0), Pes(<<P(2, 1)>>), Pes(<<P(3, 2)>>)>>,
    <<Cont(<<More>>), Pes(<<P(1, 1)>>), Pes(<<Sps(2, 0), Pps, I(2, 0)>>), Pes(<<P(3, 1)>>),
      Pes(<<P(4, 2)>>)>>}

With(s, i, x) == SubSeq(s, 1, i) \o <<x>> \o SubSeq(s, i + 1, Len(s))
Of(c, body) == GoodTables(c) \o body \o Trailer
MCStreams ==
    LET sound == {Of(c, b) : c \in {"h264", "h265"}, b \in Bodies \cup {Plain, Long}}
        more == {With(Of("h264", Plain), i, Kind(k)) : i \in 0..9, k \in {"bad", "nosync"}}
        lesser == {[Of("h264", Long) EXCEPT ![i] = Kind(k)] : i \in 1..10, k \in {"bad", "nosync"}}
    IN sound \cup more \cup lesser \cup {t \o Plain \o Trailer : t \in Tables}

MCGarbled == {I(9, 0), P(9, 1)}
=============================================================================
