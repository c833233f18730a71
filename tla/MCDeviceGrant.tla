--------------------------- MODULE MCDeviceGrant ---------------------------
(***************************************************************************)
(* Instances of DeviceGrant for TLC.                                       *)
(***************************************************************************)
EXTENDS DeviceGrant

CONSTANTS t1, t2, t3

(* Anywhere but between an add that pushed one out and its listing.        *)
AtSettle == {"settle.read", "settle.deny", "settle.take", "settle.check", "settle.done", "settle.again", "settle.add"}
AtRecord == {"record.index", "record.near", "record.list", "record.add"}
AtIssue == {"issue.told", "issue.undo", "session.keep", "session.undo"}
AtClose == {"close.held", "close.deny", "close.awaiting", "close.rest"}
AtDevice == {"authorize.code", "verify.tell", "poll.revoked", "poll.entry", "poll.answer"}

Load(ops, tokens, cap, margin, troubles, fails, crashes) ==
  [ops |-> ops, tokens |-> tokens, cap |-> cap, margin |-> margin, faults |-> troubles,
   fails |-> fails, crashes |-> crashes]

(* One session's tokens over a cap of one, with sweeps.                    *)
PushOuts == Load({"session", "sweep"}, {t1, t2, t3}, 1, 0, 1, AtSettle \cup AtRecord \cup AtIssue, AtSettle \cup AtRecord)
(* Adds at once at a margin of one.                                        *)
Margins == Load({"session", "sweep"}, {t1, t2, t3}, 2, 1, 1, {"settle.deny", "settle.again"}, {"settle.again"})
(* A session closed while its tokens are made and pushed out.              *)
Closings == Load({"session", "close"}, {t1, t2}, 1, 0, 1, AtClose, AtClose \cup {"record.add"})
(* A device decided by two browsers, polled, ended and logged out.         *)
Devices == Load({"device", "verify", "poll", "end", "close"}, {t1, t2}, 1, 0, 1, AtDevice, AtDevice)

MCLoads == {PushOuts, Margins, Closings, Devices}
=============================================================================
