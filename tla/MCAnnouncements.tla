-------------------------- MODULE MCAnnouncements --------------------------
(* Two people, the job and one "Send now", batches of one: both runs can have a send in flight. *)
EXTENDS Announcements
=============================================================================
