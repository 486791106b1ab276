---- MODULE MCQuantileSketches ----
EXTENDS QuantileSketches
MCNew == {kll_sketch(2), kll_sketch(4), quantiles_sketch(1), quantiles_sketch(2),
          req_sketch(2, TRUE), req_sketch(2, FALSE)}
MCSources ==
  UNION {Fed(p[1], p[2]) :
    p \in {<<kll_sketch(4), <<2, 1>> >>, <<kll_sketch(2), <<3, 1, 2, 1, 3, 2, 1>> >>,
           <<kll_sketch(4), <<2, 3, 1, 1, 3, 2>> >>,
           <<quantiles_sketch(2), <<3, 1, 2>> >>, <<quantiles_sketch(1), <<2, 3, 1, 3, 2>> >>,
           <<quantiles_sketch(2), <<1, 3, 2, 2, 3, 1>> >>,
           <<req_sketch(2, TRUE), <<3, 1, 2>> >>, <<req_sketch(4, TRUE), <<2, 1, 3, 3, 1, 2, 1, 3>> >>,
           <<req_sketch(2, TRUE), <<1, 2, 3, 1, 3, 2>> >>, <<req_sketch(2, FALSE), <<3, 2, 1, 2, 3, 1>> >>}}
====
