---------------------------- MODULE MCIpcSessions ----------------------------
(* A guest with two of three names registered and three session slots: the  *)
(* table fills up with sessions of sm: and of both services.               *)
EXTENDS IpcSessions

CONSTANTS hid, fsp, time, hidServer, fspServer

MCNames    == {hid, fsp, time}
MCServices == {hidServer, fspServer}
=============================================================================
