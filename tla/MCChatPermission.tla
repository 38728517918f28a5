-------------------------- MODULE MCChatPermission --------------------------
(* A full-screen client and a line-mode client, local or remote, on one daemon. *)
EXTENDS ChatPermission

CONSTANTS full, line

MCChats   == {full, line}
MCPatient == {line}
MCCaps    == {"filesystem.write", "terminal.execute.elevated", "mcp.call"}
MCDeny    == {"terminal.execute.elevated"}
MCNone    == {}
MCRemote  == {{}, {line}}
=============================================================================
