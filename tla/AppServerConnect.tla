-------------------------- MODULE AppServerConnect --------------------------
(***************************************************************************)
(* How the connector opens a socket to an app-server before a deadline     *)
(* (connect_app_server and what it calls in                                *)
(* crates/agent/src/session_inventory.rs): every address gets its share of *)
(* the time that is left, a Unix connect is driven by poll, and a watchdog *)
(* thread shuts a stream down whose handshake is still going on at the     *)
(* deadline.  A peer may refuse, stay silent, or keep a handshake alive    *)
(* with one byte at a time.                                                *)
(***************************************************************************)
EXTENDS Integers

CONSTANTS Addresses,  \* how many addresses the host resolved to
          Timeout,    \* ticks until the deadline
          Unix,       \* a unix:// URL
          Tls,        \* a wss:// URL
          Delays      \* whether time passes where the thread does not block

ConnectAssumption ==
  /\ Addresses \in Nat \ {0} /\ Timeout \in Nat \ {0}
  /\ Unix \in BOOLEAN /\ Tls \in BOOLEAN /\ Delays \in BOOLEAN

VARIABLES at,      \* the step of the connect
          left,    \* ticks until the deadline
          tried,   \* addresses tried so far
          share,   \* ticks left of the attempt at an address
          stream,  \* the stream in use
          guard,   \* ConnectionDeadlineGuard
          result

vars == <<at, left, tried, share, stream, guard, result>>

Steps == {"next", "attempt", "retry", "backlog", "progress", "guard", "tls", "upgrade",
          "cancel", "check", "done"}

TypeOK ==
  /\ at \in Steps
  /\ left \in 0..Timeout /\ tried \in 0..Addresses /\ share \in 0..Timeout
  /\ stream \in {"none", "open", "shut"}
  /\ guard \in {"none", "armed", "fired", "cancelled"}
  /\ result \in {"none", "ok", "refused", "timeout", "failed"}

Init ==
  /\ at = IF Unix THEN "retry" ELSE "next"
  /\ left = Timeout /\ tried = 0 /\ share = 0
  /\ stream = "none" /\ guard = "none" /\ result = "none"

(* A return drops the guard: the watchdog is told to stop, and joined.     *)
DropGuard == guard' = IF guard = "armed" THEN "cancelled" ELSE guard
Return(r) == at' = "done" /\ result' = r /\ DropGuard
Go(step) == at' = step /\ UNCHANGED <<result, guard>>
-----------------------------------------------------------------------------
(* connect_tcp_app_server *)

\* app_server_connect_attempt_timeout, never zero.
Share == IF left \div (Addresses - tried) = 0 THEN 1 ELSE left \div (Addresses - tried)

NextAddress ==
  /\ at = "next"
  /\ \/ tried = Addresses /\ Return("refused") /\ UNCHANGED share
     \/ tried < Addresses /\ left = 0 /\ Return("timeout") /\ UNCHANGED share
     \/ tried < Addresses /\ left > 0 /\ Go("attempt") /\ share' = Share
  /\ UNCHANGED <<left, tried, stream>>

Connected == stream' = "open" /\ Go("guard")
Attempt ==
  /\ at = "attempt"
  /\ \/ Connected
     \/ Go("next") /\ UNCHANGED stream
  /\ tried' = tried + 1 /\ share' = 0
  /\ UNCHANGED left
-----------------------------------------------------------------------------
(* connect_unix_stream_with_deadline: the backlog of the listener may be   *)
(* full, or the connect in progress; poll waits no longer than the         *)
(* deadline.                                                               *)
ConnectRetry ==
  /\ at = "retry"
  /\ \/ Connected
     \/ Go("backlog") /\ UNCHANGED stream
     \/ Go("progress") /\ UNCHANGED stream
     \/ Return("failed") /\ UNCHANGED stream
  /\ UNCHANGED <<left, tried, share>>

BacklogFull ==
  /\ at = "backlog"
  /\ IF left = 0 THEN Return("timeout") ELSE Go("retry")
  /\ UNCHANGED <<left, tried, share, stream>>

InProgress ==
  /\ at = "progress"
  /\ \/ left = 0 /\ Return("timeout") /\ UNCHANGED stream
     \/ left > 0 /\ \/ Connected
                    \/ Go("backlog") /\ UNCHANGED stream
                    \/ Go("progress") /\ UNCHANGED stream
                    \/ Return("failed") /\ UNCHANGED stream
  /\ UNCHANGED <<left, tried, share>>
-----------------------------------------------------------------------------
(* The handshakes, under the watchdog. *)

(* ConnectionDeadlineGuard::start *)
StartGuard ==
  /\ at = "guard"
  /\ \/ left = 0 /\ Return("timeout")
     \/ left > 0 /\ guard' = "armed"
        /\ at' = (IF Tls /\ ~Unix THEN "tls" ELSE "upgrade") /\ UNCHANGED result
  /\ UNCHANGED <<left, tried, share, stream>>

(* recv_timeout of the watchdog ends at the deadline: it shuts the stream. *)
Fire ==
  /\ guard = "armed" /\ left = 0
  /\ guard' = "fired" /\ stream' = "shut"
  /\ UNCHANGED <<at, left, tried, share, result>>

\* A failed handshake ends the connect: no other address is tried.
HandshakeFails ==
  /\ at \in {"tls", "upgrade"} /\ Return("failed")
  /\ UNCHANGED <<left, tried, share, stream>>

TlsDone ==
  /\ at = "tls" /\ stream = "open"
  /\ IF left = 0 THEN Return("timeout") ELSE Go("upgrade")
  /\ UNCHANGED <<left, tried, share, stream>>

Upgraded ==
  /\ at = "upgrade" /\ stream = "open" /\ Go("cancel")
  /\ UNCHANGED <<left, tried, share, stream>>

(* The watchdog is joined first, then the clock is read: a watchdog that   *)
(* fired in between did so because the deadline had passed.                *)
CancelGuard ==
  /\ at = "cancel" /\ at' = "check" /\ DropGuard
  /\ UNCHANGED <<left, tried, share, stream, result>>

\* Mutant: the clock was read before the watchdog was cancelled.
CheckAlways ==
  /\ at = "check" /\ Return("ok")
  /\ UNCHANGED <<left, tried, share, stream>>

CheckTime ==
  /\ at = "check"
  /\ IF left = 0 THEN Return("timeout") ELSE Return("ok")
  /\ UNCHANGED <<left, tried, share, stream>>
-----------------------------------------------------------------------------
Blocking == {"attempt", "backlog", "progress", "tls", "upgrade"}

(* connect_timeout returns when the share is used up.                      *)
Tick ==
  /\ left > 0 /\ at # "done"
  /\ at \in Blocking \/ Delays
  /\ at = "attempt" => share > 0
  /\ left' = left - 1
  /\ share' = IF at = "attempt" THEN share - 1 ELSE share
  /\ UNCHANGED <<at, tried, stream, guard, result>>

(* What the thread does for itself, as against what the peer lets happen.  *)
Own ==
  \/ NextAddress \/ ConnectRetry \/ BacklogFull
  \/ at = "attempt" /\ share = 0 /\ Attempt
  \/ left = 0 /\ InProgress
  \/ StartGuard \/ CancelGuard \/ CheckTime
  \/ stream = "shut" /\ HandshakeFails
Peer == Attempt \/ InProgress \/ HandshakeFails \/ TlsDone \/ Upgraded

Next == Own \/ Peer \/ Fire \/ Tick
Spec == Init /\ [][Next]_vars

(* Time passes, threads run; the peer owes nothing.                        *)
FairSpec == Spec /\ WF_vars(Own) /\ WF_vars(Fire) /\ WF_vars(Tick)
-----------------------------------------------------------------------------
(* A socket that is returned is open and stays open: no watchdog has shut  *)
(* it, and none is left that could, whenever the deadline fell.            *)
ReturnedIsOpen ==
  at = "done" => guard # "armed" /\ (result = "ok" => stream = "open" /\ guard = "cancelled")

(* A silent address does not use up the time of those after it: when an    *)
(* address is taken up there is a tick left for each that remains.         *)
SharesRemain == at = "next" => left >= Addresses - tried

(* A connect ends with its deadline, even against a peer that keeps the    *)
(* handshake alive.                                                        *)
DeadlineEnds == <>(at = "done")
=============================================================================
