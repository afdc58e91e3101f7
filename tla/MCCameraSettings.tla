-------------------------- MODULE MCCameraSettings --------------------------
(* One camera with a grid of 2 by 2 basic zones of 2 by 3 cells: a user and *)
(* the restore of a backup.                                                 *)
EXTENDS CameraSettings

Everywhere == [b \in Basics |-> Full]
Zone(x, y, w, h) == [x |-> x, y |-> y, w |-> w, h |-> h]
Plain == [masks |-> Everywhere, privacy |-> <<>>, motion |-> Basics \cup {40}, supported |-> TRUE]
Asked(masks, privacy) == [masks |-> masks, privacy |-> privacy]
Config(min, max, alerts, flip) ==
    [min |-> min, max |-> max, alerts |-> alerts, flip |-> flip, zones |-> Plain]
Saved(min, max, alerts, flip) == [min |-> min, max |-> max, alerts |-> alerts, flip |-> flip]

MCInitials == {Config(0, 2, FALSE, [int |-> TRUE, n |-> 2]),
               Config(Missing, Missing, FALSE, [int |-> FALSE, n |-> 0])}

MCUpdates ==
    [key : {"max"}, value : {3}] \cup [key : {"flip"}, value : {FALSE}]
    \cup [key : {"init"}, value : {[min |-> 0, max |-> 2]}]
    \cup [key : {"zones"}, value : {Asked(Everywhere, <<Zone(2, 1, 2, 2), Zone(5, 0, 1, 1)>>),
                                    Asked(Everywhere, <<Zone(0, 0, 6, 4)>>)}]

MCBackups == {Saved(1, 3, TRUE, TRUE), Saved(0, 2, FALSE, TRUE)}

HalfOff == [Plain EXCEPT !.masks[0] = {}, !.motion = {1, 2, 3, Flag, 40}]
MCAppWrites == {[min |-> 1, max |-> 3], [zones |-> HalfOff]}

=============================================================================
