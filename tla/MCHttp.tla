------------------------------- MODULE MCHttp -------------------------------
(* An HTTP download of two pieces by two workers.                          *)
EXTENDS HttpDownload
=============================================================================
