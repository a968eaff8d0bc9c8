------------------------------- MODULE MCTaFeed -------------------------------
(***************************************************************************)
(* Markets for TaFeed.  A history is written as the shapes of its candles: *)
(* fourteen candles of the higher timeframe, then up to 36 of the lower.   *)
(***************************************************************************)
EXTENDS TaFeed

MCSteps == <<3, 5, 8, 12, 16>>

\* <<up, down, close>> in pips from the open: full bodies, dojis, rejections, displacements.
Shapes == <<<<8, 0, 8>>, <<0, 8, -8>>, <<12, 0, 12>>, <<0, 12, -12>>, <<3, 3, 1>>, <<3, 3, -1>>,
            <<8, 2, -2>>, <<2, 8, 2>>, <<26, 0, 26>>, <<0, 26, -26>>, <<2, 6, -4>>, <<6, 2, 4>>>>

Play(open, t, minutes, scale, shapes) ==
  FoldLeft(LAMBDA acc, n :
             LET m == Shapes[n]
             IN  Append(acc, CandleFrom(IF acc = <<>> THEN open ELSE Last(acc).c, t + minutes * Len(acc),
                                        <<scale * m[1], scale * m[2], scale * m[3]>>)),
           <<>>, shapes)

\* 07:45 is the first candle of the lower timeframe; the past ends there.
History(before, after) ==
  LET p == Play(2000, 465 - TimeframeMinutes[HtfTF] * Len(before), TimeframeMinutes[HtfTF], 2, before)
  IN  [past |-> p, ltf |-> Play(Last(p).c, 465, TimeframeMinutes[LtfTF], 1, after)]

\* A setup that is confirmed; short setups of both engines; every smart money pattern;
\* every supply and demand pattern.
MCHistories ==
  {History(<<6, 6, 8, 9, 1, 7, 4, 2, 6, 2, 8, 11, 12, 4>>,
           <<7, 3, 6, 3, 6, 6, 9, 6, 2, 3, 8, 2, 6, 3, 6, 4, 2, 3, 8, 9, 5, 10, 8, 9, 5, 9, 2, 7, 2, 4, 2, 2, 10, 4, 5>>),
   History(<<9, 4, 11, 8, 11, 8, 5, 4, 11, 9, 6, 10, 5, 6>>,
           <<11, 6, 11, 10, 9, 11, 12, 12, 4, 6, 6, 3, 5, 11, 5, 12, 4, 7, 10, 6, 8, 12, 8, 2, 2, 1, 7, 11, 8, 8, 12, 10, 9, 8, 6, 5>>),
   History(<<1, 10, 10, 10, 5, 4, 8, 11, 5, 8, 1, 9, 3, 6>>,
           <<4, 3, 3, 10, 12, 7, 1, 1, 11, 1, 1, 9, 12, 6, 7, 10, 6, 11, 1, 10, 11, 7, 8, 8, 2, 12, 3, 2, 6, 3, 7, 4, 3, 9, 5, 9>>),
   History(<<6, 5, 2, 10, 5, 6, 3, 6, 11, 6, 5, 1, 10, 8>>,
           <<4, 10, 6, 1, 6, 1, 7, 12, 8, 4, 11, 8, 1, 11, 4, 11, 7, 6, 8, 5, 12, 9, 7, 11, 5, 5, 8, 6, 12, 11, 7, 6, 1, 7, 3, 9>>)}

\* A zone of the higher timeframe mitigated before the lower timeframe's window begins.
MCStale ==
  {History(<<4, 5, 5, 7, 7, 12, 3, 3, 9, 12, 10, 5, 11, 1>>,
           <<11, 4, 7, 10, 5, 1, 12, 11, 8, 8, 5, 2, 7, 10, 7, 9, 12, 10, 3, 1, 8, 3, 8, 9, 8, 6, 11, 1, 4, 9, 6, 2, 6, 3, 12, 7>>)}

MCMoves == {<<2, 2, 1>>, <<2, 26, -26>>, <<26, 2, 26>>}
=============================================================================
