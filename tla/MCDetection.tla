----------------------------- MODULE MCDetection -----------------------------
(***************************************************************************)
(* Values for Detection: three buses, of which each has a monitor, one     *)
(* that may give any answer, the first by way of an MST hub, an analog     *)
(* monitor, one of the same model as the first but with another EDID, on a *)
(* connector that is reported disconnected, one whose model is disabled,   *)
(* or cannot be opened.  The layouts have no display and one, a phantom of *)
(* either kind and of both, a phantom and a disabled display in the        *)
(* middle, and a duplicate EDID.                                           *)
(***************************************************************************)
EXTENDS Detection

Plain   == [edid |-> [id |-> 1, bytes |-> 1], accessible |-> TRUE, x37 |-> TRUE,
            mst |-> FALSE, gone |-> FALSE, ignored |-> FALSE, digital |-> TRUE,
            answers |-> {"REPORTED"}]
Odd     == [Plain EXCEPT !.answers = Answers]
Hub     == [Plain EXCEPT !.mst = TRUE, !.answers = {"REPORTED", "DISCONNECTED"}]
Analog  == [Plain EXCEPT !.edid = [id |-> 2, bytes |-> 3], !.digital = FALSE,
                         !.answers = {"REPORTED", "RETRIES"}]
Gone    == [Plain EXCEPT !.edid = [id |-> 1, bytes |-> 2], !.gone = TRUE, !.x37 = FALSE]
Ignored == [Plain EXCEPT !.edid = [id |-> 3, bytes |-> 4], !.ignored = TRUE]
Closed  == [Plain EXCEPT !.edid = None, !.accessible = FALSE]

Present == {Plain, Odd, Hub, Analog, Gone, Ignored, Closed}

\* With those that are pulled out in a detection.
MCSockets == Present \cup {Disconnected(s) : s \in Present}

MCLayouts ==
  {<<Closed, Closed, Closed>>, <<Closed, Odd, Closed>>, <<Plain, Hub, Closed>>,
   <<Gone, Hub, Plain>>, <<Plain, Gone, Analog>>, <<Plain, Ignored, Hub>>,
   <<Plain, Hub, Plain>>}
=============================================================================
