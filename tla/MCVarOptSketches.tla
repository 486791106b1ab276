------------------------- MODULE MCVarOptSketches -------------------------
(* Sketches of up to 4 items and unions of 2 to 4.   The sources are exact *)
(* ones, full ones with equal and with different tau, and full ones with   *)
(* heavy items; the tau of each is a whole number.                         *)
EXTENDS VarOptSketches

MCConfigs == {<< <<1, 3>>, <<2, 3>> >>, << <<3, 1>>, <<4, 1>> >>, << <<4, 1>>, <<3, 1>> >>}

MCSources == {<<2, 1, <<9>>>>,
              <<2, 3, <<2, 1>>>>,
              <<1, 3, <<2, 2>>>>,
              <<2, 1, <<3, 2, 3>>>>,
              <<2, 3, <<1, 1, 20>>>>,
              <<3, 1, <<1, 8, 30, 1>>>>}
=============================================================================
