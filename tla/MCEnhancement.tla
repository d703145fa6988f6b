--------------------------- MODULE MCEnhancement ---------------------------
(* Two owners and one slot; three transfers: a download and two uploads,   *)
(* so that an upload and a download, or two uploads, meet at io_lock.      *)
EXTENDS Enhancement

CONSTANTS j1, j2, d1, u1, u2

TwoJobs      == {j1, j2}
AllTransfers == {d1, u1, u2}
OneDownload  == {d1}

=============================================================================
