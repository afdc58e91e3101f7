----------------------------- MODULE MCStorage -----------------------------
(* Two requests at a Sync Module whose medium gets two clips. *)
EXTENDS Storage

MCRequests ==
    Lists
    \cup [kind : {"delete"}, manifest : {1}, clip : {1, 2}]
    \cup [kind : {"clip"}, manifest : {1}, clip : {1}]
    \cup [kind : {"format", "eject", "mount"}]

============================================================================
