------------------------------ MODULE MCUpload ------------------------------
(* Model checking of Upload beside Download: two files of one chunk to download; *)
(* to upload, files that are empty, small, and large.                            *)
EXTENDS Upload, TLC

CONSTANTS one, two, doc, photo, a, b, c

MCContent == [x \in Files |-> IF x = one THEN <<a>> ELSE <<b>>]
MCVersions == [x \in Sources |-> IF x = doc THEN {<<>>, <<a, b>>} ELSE {<<c>>}]

\* Nothing reads the history of broken downloads here, or the name of the file of
\* a download that is over.
View == <<local, toServer, toClient, aligned, client, server, up, cut,
          [t \in Transfers |-> IF Quiet(t) THEN Absent ELSE file[t]]>>
=============================================================================
