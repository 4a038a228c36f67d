------------------------------ MODULE MCEditor ------------------------------
(***************************************************************************)
(* Small timelines for the editor and its saves.                           *)
(***************************************************************************)
EXTENDS Autosave

\* A video track with one clip, an audio track without.
OneOfEach == <<
    [id |-> 1, kind |-> "VIDEO", index |-> 0, muted |-> FALSE,
     clips |-> <<[id |-> 3, start |-> 1, in |-> 0, out |-> 2, len |-> 2]>>],
    [id |-> 2, kind |-> "AUDIO", index |-> 0, muted |-> FALSE, clips |-> << >>]>>
OneVideo == SubSeq(OneOfEach, 1, 1)

\* Another project, with a clip on a video track.
OneThere == <<
    [id |-> 4, kind |-> "VIDEO", index |-> 0, muted |-> FALSE,
     clips |-> <<[id |-> 5, start |-> 0, in |-> 0, out |-> 1, len |-> 1]>>]>>
HereOrThere == [t \in TrackIdsOf(AllTracks) |-> IF t = 4 THEN "there" ELSE "here"]

BothWays == {-1, 1}
Backwards == {-1}
=============================================================================
