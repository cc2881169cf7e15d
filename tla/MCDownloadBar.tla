----------------------------- MODULE MCDownloadBar -----------------------------
(* The instance of DownloadBar for TLC. *)
EXTENDS MCDownloads, DownloadBar
================================================================================
