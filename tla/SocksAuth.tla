----------------------------- MODULE SocksAuth -----------------------------
(***************************************************************************)
(* The SOCKS5 client socket of net/socket/socks5_client_socket.cc with the *)
(* username/password sub-negotiation (RFC 1929) it adds to Chromium's      *)
(* client: SOCKS5ClientSocket::DoAuth wraps                                *)
(* SOCKS5ClientSocketAuth::Authenticate, a state machine that is resumed   *)
(* by the callback of every pending transport operation.                   *)
(*                                                                         *)
(* One action per case of the two state machines.  The outer DoLoop, the   *)
(* transport socket and the proxy are not part of src/: they are modelled  *)
(* from the way the macros and Authenticate use them.                      *)
(***************************************************************************)
EXTENDS Integers, Sequences

CONSTANTS
    Credentials, \* the [user, pass] pairs a proxy endpoint may carry
    ByteMod,     \* a byte holds 0 .. ByteMod - 1 (256 in the code)
    Char         \* the characters of user names and passwords

ASSUME CredentialsAssumption == Credentials \subseteq [user : Seq(Char), pass : Seq(Char)]
ASSUME ByteAssumption == ByteMod \in Nat /\ ByteMod > 2
ASSUME CharAssumption == Char \subseteq 0 .. ByteMod - 1

VARIABLES
    creds,      \* proxy_host_port_ (fixed by the constructor)
    next_state, \* SOCKS5ClientSocket::next_state_
    auth_state, \* SOCKS5ClientSocketAuth::next_state_
    buffer,     \* buffer_ of the sub-negotiation
    left,       \* buffer_left_
    rv,         \* the result handed from one step of the loops to the next
    ctl,        \* "idle", "run" (a DoLoop is on the stack), "wait" (it returned
                \* ERR_IO_PENDING), "done" (it returned), "closed", "crashed"
    method,     \* the method the proxy selected in its greeting (-1: none yet)
    wire,       \* the sub-negotiation bytes the transport has taken
    eof         \* the proxy closed the stream during the sub-negotiation

vars == <<creds, next_state, auth_state, buffer, left, rv, ctl, method, wire, eof>>
auth_vars == <<auth_state, buffer, left, wire, eof>>

Byte == 0 .. ByteMod - 1
OK == 0
ERR == -1  \* any net error other than ERR_IO_PENDING
kSOCKSAuthUsernamePasswordResponseLen == 2

-----------------------------------------------------------------------------
(* The message and the choice of method.                                   *)

do_auth == Len(creds.user) # 0 \/ Len(creds.pass) # 0

auth_method == IF do_auth THEN 2 ELSE 0

\* Mutant: the length of the user name is stored twice.
MutSameLength(c) ==
    <<1, Len(c.user) % ByteMod>> \o c.user \o <<Len(c.user) % ByteMod>> \o c.pass

\* 0x01, usernamelen, username, passwordlen, password.  Both lengths are
\* stored into one char of buffer_.
AuthMessage(c) ==
    <<1, Len(c.user) % ByteMod>> \o c.user \o <<Len(c.pass) % ByteMod>> \o c.pass

\* Mutant: the first buffer_left_ bytes are sent.
MutFirstBytes == SubSeq(buffer, 1, left)

\* The last buffer_left_ bytes of buffer_, the ones STATE_WRITE hands over.
Unsent == SubSeq(buffer, Len(buffer) - left + 1, Len(buffer))

-----------------------------------------------------------------------------
Init ==
    /\ creds \in Credentials
    /\ next_state = "NONE"
    /\ auth_state = "INIT_WRITE"
    /\ buffer = <<>>
    /\ left = 0
    /\ rv = OK
    /\ ctl = "idle"
    /\ method = -1
    /\ wire = <<>>
    /\ eof = FALSE

Running(s) == ctl = "run" /\ next_state = s

\* Connect(): DoLoop starts with the greeting.
Connect ==
    /\ ctl = "idle"
    /\ ctl' = "run"
    /\ next_state' = "GREET"
    /\ UNCHANGED <<creds, rv, method, auth_vars>>

\* DoLoop returns r to the caller of Connect or to the user callback.
Return(r) == ctl' = "done" /\ rv' = r /\ next_state' = "NONE"

\* Mutant: any method the client knows is taken.
MutKnownMethod(m) == m \in {0, 2}

\* The proxy must select the one method it was offered.
MethodAgreed(m) == m = auth_method

\* The greeting: auth_method() is offered, the proxy answers with m or the
\* transport fails.  Any answer other than the method offered is an error.
Greet ==
    /\ Running("GREET")
    /\ \/ \E m \in Byte :
            /\ method' = m
            /\ \/ MethodAgreed(m) /\ rv' = OK /\ next_state' = "AUTH" /\ UNCHANGED ctl
               \/ ~MethodAgreed(m) /\ Return(ERR)
       \/ Return(ERR) /\ UNCHANGED method
    /\ UNCHANGED <<creds, auth_vars>>

\* A step of Authenticate's loop.  DoAuth keeps next_state_ at STATE_AUTH
\* unless Authenticate returned OK.
InAuth(s) == Running("AUTH") /\ do_auth /\ auth_state = s

\* Authenticate returns OK: DoAuth moves on to the handshake.
AuthOK ==
    /\ rv' = OK
    /\ next_state' = "HANDSHAKE"

\* Nothing to authenticate with: Authenticate returns OK at once.
AuthNone ==
    /\ Running("AUTH")
    /\ ~do_auth
    /\ AuthOK
    /\ UNCHANGED <<creds, ctl, method, auth_vars>>

AuthInitWrite ==
    /\ InAuth("INIT_WRITE")
    /\ buffer' = AuthMessage(creds)
    /\ left' = Len(AuthMessage(creds))
    /\ auth_state' = "WRITE"
    /\ rv' = OK
    /\ UNCHANGED <<creds, next_state, ctl, method, wire, eof>>

\* The transport takes between one byte and all of Unsent, or fails.
TransportWrites ==
    \/ \E n \in 1 .. left :
        /\ rv' = n
        /\ wire' = wire \o SubSeq(Unsent, 1, n)
    \/ rv' = ERR /\ UNCHANGED wire

\* Write() completes synchronously or answers ERR_IO_PENDING.
AuthWrite ==
    /\ InAuth("WRITE")
    /\ auth_state' = "WRITE_COMPLETE"
    /\ \/ TransportWrites /\ UNCHANGED ctl
       \/ ctl' = "wait" /\ UNCHANGED <<rv, wire>>
    /\ UNCHANGED <<creds, next_state, buffer, left, method, eof>>

\* OnIOComplete for the pending Write.
WriteCallback ==
    /\ ctl = "wait"
    /\ auth_state = "WRITE_COMPLETE"
    /\ ctl' = "run"
    /\ TransportWrites
    /\ UNCHANGED <<creds, next_state, auth_state, buffer, left, method, eof>>

\* Mutant: the state is not moved to STATE_BAD.
MutKeepState ==
    /\ rv < 0
    /\ UNCHANGED <<auth_state, rv, left>>

\* Authenticate returns the transport's error: DoAuth leaves next_state_ at
\* STATE_AUTH and DoLoop goes round again with the error in rv.
AuthError ==
    /\ rv < 0
    /\ auth_state' = "BAD"
    /\ UNCHANGED <<rv, left>>

AuthWriteComplete ==
    /\ InAuth("WRITE_COMPLETE")
    /\ \/ AuthError
       \/ /\ rv >= 0
          /\ left' = left - rv
          /\ auth_state' = IF left' = 0 THEN "INIT_READ" ELSE "WRITE"
          /\ rv' = OK
    /\ UNCHANGED <<creds, next_state, buffer, ctl, method, wire, eof>>

AuthInitRead ==
    /\ InAuth("INIT_READ")
    /\ buffer' = <<>>
    /\ left' = kSOCKSAuthUsernamePasswordResponseLen
    /\ auth_state' = "READ"
    /\ rv' = OK
    /\ UNCHANGED <<creds, next_state, ctl, method, wire, eof>>

\* The bytes the transport delivers go to iobuf_; STATE_READ_COMPLETE appends
\* them to buffer_ before anything else looks at it, so they are added here.
\* A closed stream reads as 0 bytes, now and on every later read.
TransportReads ==
    \/ \E n \in 1 .. left, d \in [1 .. left -> Byte] :
        /\ ~eof
        /\ rv' = n
        /\ buffer' = buffer \o SubSeq(d, 1, n)
        /\ UNCHANGED eof
    \/ rv' = 0 /\ eof' = TRUE /\ UNCHANGED buffer
    \/ rv' = ERR /\ UNCHANGED <<buffer, eof>>

AuthRead ==
    /\ InAuth("READ")
    /\ auth_state' = "READ_COMPLETE"
    /\ \/ TransportReads /\ UNCHANGED ctl
       \/ ctl' = "wait" /\ UNCHANGED <<rv, buffer, eof>>
    /\ UNCHANGED <<creds, next_state, left, method, wire>>

\* OnIOComplete for the pending Read.
ReadCallback ==
    /\ ctl = "wait"
    /\ auth_state = "READ_COMPLETE"
    /\ ctl' = "run"
    /\ TransportReads
    /\ UNCHANGED <<creds, next_state, auth_state, left, method, wire>>

AuthReadComplete ==
    /\ InAuth("READ_COMPLETE")
    /\ \/ AuthError
       \/ /\ rv >= 0
          /\ left' = left - rv
          /\ auth_state' = IF left' = 0 THEN "DONE" ELSE "READ"
          /\ rv' = OK
    /\ UNCHANGED <<creds, next_state, buffer, ctl, method, wire, eof>>

\* Mutant: the status byte is not looked at.
MutVersionOnly == buffer[1] = 1

ProxyAccepts == buffer[1] = 1 /\ buffer[2] = 0

\* The version and the status of the proxy's answer decide.
AuthDone ==
    /\ InAuth("DONE")
    /\ auth_state' = "BAD"
    /\ \/ ProxyAccepts /\ AuthOK
       \/ ~ProxyAccepts /\ rv' = ERR /\ UNCHANGED next_state
    /\ UNCHANGED <<creds, buffer, left, ctl, method, wire, eof>>

\* NOTREACHED() << "bad state" ends the process.
AuthBad ==
    /\ InAuth("BAD")
    /\ ctl' = "crashed"
    /\ UNCHANGED <<creds, next_state, rv, method, auth_vars>>

\* The CONNECT handshake of the SOCKS5 protocol succeeds or fails.
Handshake ==
    /\ Running("HANDSHAKE")
    /\ \/ ctl' = "done" /\ rv' = OK /\ next_state' = "CONNECTED"
       \/ Return(ERR)
    /\ UNCHANGED <<creds, method, auth_vars>>

\* Disconnect() while an operation is pending drops its callback.
Disconnect ==
    /\ ctl \in {"wait", "done"}
    /\ ctl' = "closed"
    /\ next_state' = "NONE"
    /\ UNCHANGED <<creds, rv, method, auth_vars>>

AuthStep ==
    \/ AuthNone
    \/ AuthInitWrite
    \/ AuthWrite
    \/ AuthWriteComplete
    \/ AuthInitRead
    \/ AuthRead
    \/ AuthReadComplete
    \/ AuthDone
    \/ AuthBad

LoopStep == Greet \/ AuthStep \/ Handshake

Next == Connect \/ LoopStep \/ WriteCallback \/ ReadCallback \/ Disconnect

Spec == Init /\ [][Next]_vars

\* A DoLoop on the stack runs on: its steps are weakly fair.  Nothing is
\* assumed of the transport: a pending operation may stay pending for ever.
FairSpec == Spec /\ WF_vars(LoopStep)

-----------------------------------------------------------------------------
(* Properties.                                                             *)

AuthStates == {"INIT_WRITE", "WRITE", "WRITE_COMPLETE", "INIT_READ", "READ",
               "READ_COMPLETE", "DONE", "BAD"}

\* Type invariant: every byte of the buffer and of the wire fits a byte.
TypeOK ==
    /\ creds \in Credentials
    /\ next_state \in {"NONE", "GREET", "AUTH", "HANDSHAKE", "CONNECTED"}
    /\ auth_state \in AuthStates
    /\ buffer \in Seq(Byte)
    /\ left \in Nat
    /\ rv \in Int
    /\ ctl \in {"idle", "run", "wait", "done", "closed", "crashed"}
    /\ method \in Byte \cup {-1}
    /\ wire \in Seq(Byte)
    /\ eof \in BOOLEAN

\* However the transport splits the writes and whether they complete at once
\* or later, the proxy has received a prefix of the message, no byte twice or
\* missing, and all of it before the client starts to read the answer
\* (STATE_WRITE and STATE_WRITE_COMPLETE of Authenticate).
WireIsMessagePrefix ==
    /\ wire = SubSeq(AuthMessage(creds), 1, Len(wire))
    /\ auth_state \in {"INIT_READ", "READ", "READ_COMPLETE", "DONE"} =>
          wire = AuthMessage(creds)

\* The CONNECT handshake starts only on a stream whose proxy selected the
\* method offered and, when there are credentials, has been sent all of them
\* and answered with version 1 and status 0, whose two bytes are all that was
\* read (DoAuth, STATE_DONE).
TunnelOnlyIfAuthenticated ==
    next_state \in {"HANDSHAKE", "CONNECTED"} =>
        /\ method = auth_method
        /\ do_auth => wire = AuthMessage(creds) /\ buffer = <<1, 0>>

\* No byte of the credentials leaves before the proxy selected the method
\* username/password (the greeting macros).
CredentialsOnlyOnRequest == wire # <<>> => method = 2 /\ do_auth

\* A proxy that follows RFC 1929 takes the credentials c out of the message w.
DecodesTo(w, c) ==
    LET u == w[2]
        p == w[3 + u]
    IN  /\ 3 + u <= Len(w)
        /\ Len(w) = 3 + u + p
        /\ SubSeq(w, 3, 2 + u) = c.user
        /\ SubSeq(w, 4 + u, 3 + u + p) = c.pass

\* A proxy that has received the whole message reads from it the credentials
\* of the endpoint, as long as both lengths fit their byte (STATE_INIT_WRITE).
ProxyReadsCredentials ==
    /\ auth_state = "INIT_READ"
    /\ Len(creds.user) < ByteMod
    /\ Len(creds.pass) < ByteMod
    => DecodesTo(wire, creds)

\* A DoLoop never holds the network thread: it returns, waits for the
\* transport or ends the process, unless the proxy has closed the stream in
\* the sub-negotiation (STATE_READ_COMPLETE takes 0 bytes for progress).
LoopYields == ctl = "run" ~> (ctl # "run" \/ eof)

\* "Caller had better stop here": Authenticate is not called again once it
\* has set STATE_BAD.
NeverInBadState == ctl # "crashed"

=============================================================================
