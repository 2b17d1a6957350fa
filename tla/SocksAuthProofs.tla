-------------------------- MODULE SocksAuthProofs --------------------------
(***************************************************************************)
(* For all credentials, byte widths and behaviours of transport and proxy: *)
(* type correctness, the integrity of the message on the wire and that no  *)
(* tunnel is opened, and no credential sent, without the proxy's consent.  *)
(***************************************************************************)
EXTENDS SocksAuth, SequenceTheorems, TLAPS

Message == AuthMessage(creds)

\* Bytes the transport has taken or delivered that buffer_left_ still counts:
\* the result waits in rv for STATE_WRITE_COMPLETE or STATE_READ_COMPLETE.
InFlight == IF ctl = "run" /\ rv >= 0 THEN rv ELSE 0

Writing == auth_state \in {"WRITE", "WRITE_COMPLETE"}
Reading == auth_state \in {"READ", "READ_COMPLETE"}

\* While the message is written: the bytes taken and the bytes left make it up.
WriteInv ==
    /\ wire = SubSeq(Message, 1, Len(wire))
    /\ Len(wire) <= Len(Message)
    /\ auth_state = "INIT_WRITE" => wire = <<>>
    /\ Writing => buffer = Message
    /\ auth_state = "WRITE" => Len(wire) + left = Len(Message)
    /\ auth_state = "WRITE_COMPLETE" =>
          Len(wire) + left = Len(Message) + InFlight /\ InFlight <= left
    /\ auth_state \in {"INIT_READ", "READ", "READ_COMPLETE", "DONE"} => wire = Message

\* While the answer is read: the two bytes of the response and no more.
ReadInv ==
    /\ auth_state = "READ" => Len(buffer) + left = 2
    /\ auth_state = "READ_COMPLETE" =>
          Len(buffer) + left = 2 + InFlight /\ InFlight <= left
    /\ auth_state = "DONE" => Len(buffer) = 2

\* How the two state machines and the selected method go together.
ControlInv ==
    /\ next_state = "GREET" \/ ctl = "idle" => auth_state = "INIT_WRITE"
    /\ ctl = "wait" => next_state = "AUTH"
                       /\ auth_state \in {"WRITE_COMPLETE", "READ_COMPLETE"}
    /\ next_state \in {"AUTH", "HANDSHAKE", "CONNECTED"} => method = auth_method
    /\ auth_state # "INIT_WRITE" => do_auth /\ method = 2
    /\ next_state \in {"HANDSHAKE", "CONNECTED"} => auth_state \in {"INIT_WRITE", "BAD"}
    /\ next_state \in {"HANDSHAKE", "CONNECTED"} /\ do_auth =>
          wire = Message /\ buffer = <<1, 0>>

IInv == TypeOK /\ WriteInv /\ ReadInv /\ ControlInv

-----------------------------------------------------------------------------
(* Lemmas about the message.                                               *)

\* The message is a sequence of bytes, of which the user name and the password
\* are two parts and the version and the lengths three more.
LEMMA MessageType ==
    ASSUME NEW c \in Credentials
    PROVE  AuthMessage(c) \in Seq(Byte) /\ Len(AuthMessage(c)) >= 3
<1>1. c.user \in Seq(Char) /\ c.pass \in Seq(Char)
  BY CredentialsAssumption
<1>2. c.user \in Seq(Byte) /\ c.pass \in Seq(Byte)
  <2>1. Char \subseteq Byte
    BY CharAssumption DEF Byte
  <2>2. QED BY <1>1, <2>1, SeqMonotonic, Zenon
<1>3. \A n \in Nat : n % ByteMod \in Byte
  BY ByteAssumption DEF Byte
<1>4. Len(c.user) \in Nat /\ Len(c.pass) \in Nat
  BY <1>2, LenProperties, Zenon
<1>5. 1 \in Byte
  BY ByteAssumption DEF Byte
<1> DEFINE u == <<1, Len(c.user) % ByteMod>>
           p == <<Len(c.pass) % ByteMod>>
           v == u \o c.user
           w == v \o p
<1>6. u \in Seq(Byte) /\ Len(u) >= 2 /\ p \in Seq(Byte) /\ Len(p) >= 1
  BY <1>3, <1>4, <1>5
<1>7. AuthMessage(c) = w \o c.pass
  BY DEF AuthMessage
<1> HIDE DEF u, p
<1>8. v \in Seq(Byte) /\ Len(v) = Len(u) + Len(c.user)
  BY <1>2, <1>6, ConcatProperties, Zenon
<1> HIDE DEF v
<1>9. w \in Seq(Byte) /\ Len(w) = Len(v) + Len(p)
  BY <1>6, <1>8, ConcatProperties, Zenon
<1> HIDE DEF w
<1>10. /\ w \o c.pass \in Seq(Byte)
       /\ Len(w \o c.pass) = Len(w) + Len(c.pass)
  <2> DEFINE q == c.pass
  <2>1. w \in Seq(Byte) /\ q \in Seq(Byte)
    BY <1>2, <1>9
  <2> HIDE DEF q
  <2>2. w \o q \in Seq(Byte) /\ Len(w \o q) = Len(w) + Len(q)
    BY <2>1, ConcatProperties, Zenon
  <2>3. QED BY <2>2 DEF q
<1>11. Len(w) >= 3
  <2>1. Len(u) \in Nat /\ Len(p) \in Nat
    BY <1>6, LenProperties, Zenon
  <2>2. QED BY <1>4, <1>6, <1>8, <1>9, <2>1
<1>12. Len(w \o c.pass) >= 3
  <2>1. Len(w) \in Nat
    BY <1>9, LenProperties, Zenon
  <2>2. QED BY <1>4, <1>10, <1>11, <2>1
<1>13. QED BY <1>7, <1>10, <1>12, Zenon

\* Handing over the first n of the last l items of m extends the first
\* Len(m) - l of them by n.
LEMMA SuffixExtendsPrefix ==
    ASSUME NEW S, NEW m \in Seq(S), NEW l \in 0 .. Len(m), NEW n \in 1 .. l
    PROVE  /\ SubSeq(SubSeq(m, Len(m) - l + 1, Len(m)), 1, n) \in Seq(S)
           /\ Len(SubSeq(SubSeq(m, Len(m) - l + 1, Len(m)), 1, n)) = n
           /\ SubSeq(m, 1, Len(m) - l) \o SubSeq(SubSeq(m, Len(m) - l + 1, Len(m)), 1, n)
                = SubSeq(m, 1, Len(m) - l + n)
<1> DEFINE t == SubSeq(m, Len(m) - l + 1, Len(m))
           h == SubSeq(m, 1, Len(m) - l)
           u == SubSeq(t, 1, n)
           r == SubSeq(m, 1, Len(m) - l + n)
<1>1. t \in Seq(S) /\ Len(t) = l /\ \A i \in 1 .. l : t[i] = m[Len(m) - l + i]
  OBVIOUS
<1>2. u \in Seq(S) /\ Len(u) = n /\ \A i \in 1 .. n : u[i] = t[i]
  BY <1>1
<1>3. h \in Seq(S) /\ Len(h) = Len(m) - l /\ \A i \in 1 .. Len(m) - l : h[i] = m[i]
  OBVIOUS
<1>4. r \in Seq(S) /\ Len(r) = Len(m) - l + n /\ \A i \in 1 .. Len(m) - l + n : r[i] = m[i]
  OBVIOUS
<1> HIDE DEF t, h, u, r
<1>5. /\ h \o u \in Seq(S)
      /\ Len(h \o u) = Len(h) + Len(u)
      /\ \A i \in 1 .. Len(h) + Len(u) :
            (h \o u)[i] = IF i <= Len(h) THEN h[i] ELSE u[i - Len(h)]
  BY <1>2, <1>3, ConcatProperties, Zenon
<1>6. Len(h \o u) = Len(r)
  BY <1>2, <1>3, <1>4, <1>5
<1>7. ASSUME NEW i \in 1 .. Len(r)
      PROVE  (h \o u)[i] = r[i]
  <2>1. i \in 1 .. Len(h) + Len(u)
    BY <1>2, <1>3, <1>4
  <2>2. CASE i <= Len(h)
    BY <1>3, <1>4, <1>5, <2>1, <2>2
  <2>3. CASE ~(i <= Len(h))
    <3>1. i - Len(h) \in 1 .. n
      BY <1>2, <1>3, <2>1, <2>3
    <3>2. u[i - Len(h)] = m[Len(m) - l + (i - Len(h))]
      BY <1>1, <1>2, <3>1
    <3>3. Len(m) - l + (i - Len(h)) = i
      BY <1>3
    <3>4. QED BY <1>4, <1>5, <2>1, <2>3, <3>2, <3>3
  <2>4. QED BY <2>2, <2>3
<1>8. h \o u = r
  BY <1>4, <1>5, <1>6, <1>7, SeqEqual
<1>9. QED BY <1>2, <1>8 DEF t, h, u, r

-----------------------------------------------------------------------------
(* The inductive invariant.                                                *)

\* The invariant holds before the connection.
LEMMA InitIInv == Init => IInv
<1> SUFFICES ASSUME Init PROVE IInv
  OBVIOUS
<1>1. Message \in Seq(Byte) /\ Len(Message) >= 3
  BY MessageType DEF Init, Message
<1>2. TypeOK
  <2>1. buffer \in Seq(Byte) /\ wire \in Seq(Byte)
    BY EmptySeq, Zenon DEF Init
  <2>2. left \in Nat /\ rv \in Int
    BY DEF Init, OK
  <2>3. method \in Byte \cup {-1}
    BY DEF Init
  <2>4. /\ next_state \in {"NONE", "GREET", "AUTH", "HANDSHAKE", "CONNECTED"}
        /\ auth_state \in AuthStates
        /\ ctl \in {"idle", "run", "wait", "done", "closed", "crashed"}
    BY DEF Init, AuthStates
  <2>5. creds \in Credentials /\ eof \in BOOLEAN
    BY Zenon DEF Init
  <2>6. QED BY <2>1, <2>2, <2>3, <2>4, <2>5 DEF TypeOK
<1>3. WriteInv
  BY <1>1, SubSeqEmpty DEF Init, WriteInv, Writing
<1>4. ReadInv /\ ControlInv
  BY DEF Init, ReadInv, ControlInv
<1>5. QED BY <1>2, <1>3, <1>4 DEF IInv

\* What the transport does to a pending or synchronous write, in the states
\* in which it is called.
LEMMA WriteProgress ==
    ASSUME TypeOK, wire = SubSeq(Message, 1, Len(wire)), buffer = Message,
           Len(wire) + left = Len(Message),
           TransportWrites, creds' = creds
    PROVE  /\ rv' \in Int
           /\ wire' \in Seq(Byte)
           /\ wire' = SubSeq(Message', 1, Len(wire'))
           /\ Len(wire') <= Len(Message')
           /\ rv' >= 0 => Len(wire') + left = Len(Message') + rv' /\ rv' <= left
           /\ rv' < 0  => Len(wire') + left = Len(Message')
<1>1. Message \in Seq(Byte) /\ Message' = Message
  BY MessageType DEF TypeOK, Message
<1>2. left \in 0 .. Len(Message) /\ Len(wire) = Len(Message) - left
  BY <1>1 DEF TypeOK
<1>3. CASE \E n \in 1 .. left : rv' = n /\ wire' = wire \o SubSeq(Unsent, 1, n)
  <2>1. PICK n \in 1 .. left : rv' = n /\ wire' = wire \o SubSeq(Unsent, 1, n)
    BY <1>3
  <2>2. Unsent = SubSeq(Message, Len(Message) - left + 1, Len(Message))
    BY DEF Unsent
  <2>3. wire' = SubSeq(Message, 1, Len(Message) - left + n)
    <3>1. wire = SubSeq(Message, 1, Len(Message) - left)
      BY <1>2
    <3>2. QED BY <1>1, <1>2, <2>1, <2>2, <3>1, SuffixExtendsPrefix, Zenon
  <2>4. wire' \in Seq(Byte) /\ Len(wire') = Len(Message) - left + n
    BY <1>1, <1>2, <2>3
  <2>5. wire' = SubSeq(Message', 1, Len(wire'))
    BY <1>1, <2>3, <2>4, Zenon
  <2>6. /\ Len(wire') <= Len(Message')
        /\ rv' = n /\ n > 0
        /\ Len(wire') + left = Len(Message') + n /\ n <= left
    <3>1. Len(Message) \in Nat /\ left \in Nat
      BY <1>1, <1>2, LenProperties
    <3>2. QED BY <1>1, <1>2, <2>1, <2>4, <3>1
  <2>7. QED BY <2>4, <2>5, <2>6
<1>4. CASE rv' = ERR /\ UNCHANGED wire
  <2>1. wire' = SubSeq(Message', 1, Len(wire'))
    BY <1>1, <1>4, Zenon
  <2>2. Len(wire') = Len(Message') - left /\ rv' = -1
    BY <1>1, <1>2, <1>4 DEF ERR
  <2>3. Len(Message') \in Nat /\ left \in Nat
    BY <1>1, <1>2, LenProperties
  <2>4. wire' \in Seq(Byte)
    BY <1>4 DEF TypeOK
  <2>5. Len(wire') <= Len(Message') /\ Len(wire') + left = Len(Message')
    BY <1>2, <2>2, <2>3
  <2>6. QED BY <2>1, <2>2, <2>4, <2>5
<1>5. QED BY <1>3, <1>4 DEF TransportWrites

\* What the transport does to a pending or synchronous read.
LEMMA ReadProgress ==
    ASSUME TypeOK, Len(buffer) + left = 2, TransportReads
    PROVE  /\ rv' \in Int
           /\ eof' \in BOOLEAN
           /\ buffer' \in Seq(Byte)
           /\ rv' >= 0 => Len(buffer') + left = 2 + rv' /\ rv' <= left
           /\ rv' < 0 => Len(buffer') + left = 2
<1>1. CASE \E n \in 1 .. left, d \in [1 .. left -> Byte] :
              rv' = n /\ buffer' = buffer \o SubSeq(d, 1, n) /\ UNCHANGED eof
  <2>1. PICK n \in 1 .. left, d \in [1 .. left -> Byte] :
              rv' = n /\ buffer' = buffer \o SubSeq(d, 1, n) /\ UNCHANGED eof
    BY <1>1
  <2> DEFINE s == SubSeq(d, 1, n)
  <2>2. s \in Seq(Byte) /\ Len(s) = n
    <3>1. \A i \in 1 .. n : d[i] \in Byte
      BY <2>1 DEF TypeOK
    <3>2. s \in Seq(Byte) /\ Len(s) = IF 1 <= n THEN n - 1 + 1 ELSE 0
      BY <3>1, SubSeqProperties
    <3>3. QED BY <3>2
  <2> HIDE DEF s
  <2>3. buffer' \in Seq(Byte) /\ Len(buffer') = Len(buffer) + Len(s)
    BY <2>1, <2>2, ConcatProperties, Zenon DEF TypeOK, s
  <2>4. Len(buffer) \in Nat
    BY LenProperties DEF TypeOK
  <2>5. QED BY <2>1, <2>2, <2>3, <2>4 DEF TypeOK
<1>2. CASE rv' = 0 /\ eof' = TRUE /\ UNCHANGED buffer
  BY <1>2 DEF TypeOK
<1>3. CASE rv' = ERR /\ UNCHANGED <<buffer, eof>>
  BY <1>3 DEF ERR, TypeOK
<1>4. QED BY <1>1, <1>2, <1>3 DEF TransportReads

\* Every step preserves the inductive invariant; the steps that touch neither
\* the buffer nor the wire only move the control.
LEMMA NextIInv == IInv /\ [Next]_vars => IInv'
<1> SUFFICES ASSUME IInv, [Next]_vars PROVE IInv'
  OBVIOUS
<1>1. creds' = creds /\ Message' = Message
  BY DEF Next, vars, Connect, LoopStep, AuthStep, Greet, AuthNone, AuthInitWrite,
         AuthWrite, AuthWriteComplete, AuthInitRead, AuthRead, AuthReadComplete,
         AuthDone, AuthBad, Handshake, WriteCallback, ReadCallback, Disconnect, Message
<1>2. Message \in Seq(Byte) /\ Len(Message) >= 3
  BY MessageType DEF IInv, TypeOK, Message
<1>3. do_auth' = do_auth /\ auth_method' = auth_method
  BY <1>1 DEF do_auth, auth_method
<1>4. method \in Int /\ (do_auth <=> auth_method = 2)
  BY ByteAssumption DEF IInv, TypeOK, Byte, auth_method
<1> USE DEF IInv
<1>5. CASE UNCHANGED vars
  BY <1>1, <1>3, <1>5 DEF vars, TypeOK, WriteInv, ReadInv, ControlInv, Writing, InFlight
<1>6. CASE Connect
  BY <1>1, <1>3, <1>6 DEF Connect, auth_vars, TypeOK, WriteInv, ReadInv, ControlInv, Writing, InFlight
<1>7. CASE Greet
  <2>1. TypeOK'
    BY <1>1, <1>7 DEF Greet, Running, Return, auth_vars, TypeOK, OK, ERR
  <2>2. auth_state = "INIT_WRITE" /\ UNCHANGED auth_vars
    BY <1>7 DEF Greet, Running, ControlInv
  <2>3. WriteInv' /\ ReadInv'
    BY <1>1, <2>2 DEF auth_vars, WriteInv, ReadInv, Writing, InFlight
  <2>4. ControlInv'
    BY <1>1, <1>3, <1>7, <2>2
       DEF Greet, Running, Return, MethodAgreed, ControlInv, auth_vars
  <2>5. QED BY <2>1, <2>3, <2>4
<1>8. CASE AuthNone
  BY <1>1, <1>3, <1>8 DEF AuthNone, AuthOK, Running, OK, auth_vars, TypeOK, WriteInv,
                          ReadInv, ControlInv, Writing, InFlight
<1>9. CASE AuthInitWrite
  <2>1. auth_state = "INIT_WRITE" /\ do_auth /\ next_state = "AUTH" /\ ctl = "run"
    BY <1>9 DEF AuthInitWrite, InAuth, Running
  <2>2. buffer' = Message /\ left' = Len(Message)
    BY <1>9 DEF AuthInitWrite, Message
  <2>3. TypeOK'
    BY <1>2, <1>9, <2>2 DEF AuthInitWrite, TypeOK, AuthStates, OK
  <2>4. WriteInv'
    <3>1. Len(wire') = 0 /\ wire' = <<>>
      BY <1>9, <2>1 DEF AuthInitWrite, WriteInv
    <3>2. SubSeq(Message', 1, 0) = <<>>
      BY SubSeqEmpty
    <3>3. QED BY <1>1, <1>2, <1>9, <2>2, <3>1, <3>2 DEF AuthInitWrite, WriteInv, Writing
  <2>5. ReadInv' /\ ControlInv'
    BY <1>1, <1>3, <1>4, <1>9, <2>1 DEF AuthInitWrite, ReadInv, ControlInv
  <2>6. QED BY <2>3, <2>4, <2>5
<1>10. CASE AuthWrite
  <2>1. auth_state = "WRITE" /\ do_auth /\ next_state = "AUTH" /\ ctl = "run"
    BY <1>10 DEF AuthWrite, InAuth, Running
  <2>2. UNCHANGED <<creds, next_state, buffer, left, method, eof>> /\ auth_state' = "WRITE_COMPLETE"
    BY <1>10 DEF AuthWrite
  <2>3. CASE TransportWrites /\ UNCHANGED ctl
    <3>1. /\ rv' \in Int
          /\ wire' \in Seq(Byte)
          /\ wire' = SubSeq(Message', 1, Len(wire'))
          /\ Len(wire') <= Len(Message')
          /\ rv' >= 0 => Len(wire') + left = Len(Message') + rv' /\ rv' <= left
          /\ rv' < 0  => Len(wire') + left = Len(Message')
      BY <2>1, <2>2, <2>3, WriteProgress DEF WriteInv, Writing
    <3>2. TypeOK'
      BY <2>2, <2>3, <3>1 DEF TypeOK, AuthStates
    <3>3. WriteInv'
      BY <1>1, <1>2, <2>1, <2>2, <2>3, <3>1 DEF WriteInv, Writing, InFlight, TypeOK
    <3>4. ReadInv' /\ ControlInv'
      BY <1>3, <2>1, <2>2, <2>3 DEF ReadInv, ControlInv
    <3>5. QED BY <3>2, <3>3, <3>4
  <2>4. CASE ctl' = "wait" /\ UNCHANGED <<rv, wire>>
    BY <1>1, <1>3, <2>1, <2>2, <2>4 DEF TypeOK, AuthStates, WriteInv, ReadInv, ControlInv, Writing, InFlight
  <2>5. QED BY <1>10, <2>3, <2>4 DEF AuthWrite
<1>11. CASE WriteCallback
  <2>1. auth_state = "WRITE_COMPLETE" /\ next_state = "AUTH" /\ ctl = "wait"
    BY <1>11 DEF WriteCallback, ControlInv
  <2>2. UNCHANGED <<creds, next_state, auth_state, buffer, left, method, eof>> /\ ctl' = "run"
        /\ TransportWrites
    BY <1>11 DEF WriteCallback
  <2>3. /\ rv' \in Int
        /\ wire' \in Seq(Byte)
        /\ wire' = SubSeq(Message', 1, Len(wire'))
        /\ Len(wire') <= Len(Message')
        /\ rv' >= 0 => Len(wire') + left = Len(Message') + rv' /\ rv' <= left
        /\ rv' < 0  => Len(wire') + left = Len(Message')
    <3>1. Len(wire) + left = Len(Message)
      BY <1>2, <2>1 DEF WriteInv, InFlight, TypeOK
    <3>2. QED BY <2>1, <2>2, <3>1, WriteProgress DEF WriteInv, Writing
  <2>4. TypeOK'
    BY <2>2, <2>3 DEF TypeOK
  <2>5. WriteInv'
    BY <1>1, <1>2, <2>1, <2>2, <2>3 DEF WriteInv, Writing, InFlight, TypeOK
  <2>6. ReadInv' /\ ControlInv'
    BY <1>3, <2>1, <2>2 DEF ReadInv, ControlInv
  <2>7. QED BY <2>4, <2>5, <2>6
<1>12. CASE AuthWriteComplete
  <2>1. auth_state = "WRITE_COMPLETE" /\ do_auth /\ next_state = "AUTH" /\ ctl = "run"
    BY <1>12 DEF AuthWriteComplete, InAuth, Running
  <2>2. UNCHANGED <<creds, next_state, buffer, ctl, method, wire, eof>>
    BY <1>12 DEF AuthWriteComplete
  <2>3. CASE AuthError
    BY <1>1, <1>3, <2>1, <2>2, <2>3 DEF AuthError, TypeOK, AuthStates, WriteInv, ReadInv, ControlInv, Writing
  <2>4. CASE rv >= 0 /\ left' = left - rv /\ rv' = OK
             /\ auth_state' = IF left' = 0 THEN "INIT_READ" ELSE "WRITE"
    <3>1. left' \in Nat /\ Len(wire) + left' = Len(Message)
      BY <1>2, <2>1, <2>4 DEF WriteInv, InFlight, TypeOK
    <3>2. left' = 0 => wire = Message
      <4>1. left' = 0 => Len(wire) = Len(Message)
        BY <1>2, <3>1 DEF TypeOK
      <4>2. SubSeq(Message, 1, Len(Message)) = Message
        BY <1>2, SubSeqFull
      <4>3. QED BY <4>1, <4>2 DEF WriteInv
    <3>3. TypeOK'
      BY <2>2, <2>4, <3>1 DEF TypeOK, AuthStates, OK
    <3>4. WriteInv'
      BY <1>1, <2>1, <2>2, <2>4, <3>1, <3>2 DEF WriteInv, Writing
    <3>5. ReadInv' /\ ControlInv'
      BY <1>1, <1>3, <2>1, <2>2, <2>4 DEF ReadInv, ControlInv
    <3>6. QED BY <3>3, <3>4, <3>5
  <2>5. QED BY <1>12, <2>3, <2>4 DEF AuthWriteComplete
<1>13. CASE AuthInitRead
  <2>1. auth_state = "INIT_READ" /\ do_auth /\ next_state = "AUTH" /\ ctl = "run"
    BY <1>13 DEF AuthInitRead, InAuth, Running
  <2>2. /\ UNCHANGED <<creds, next_state, ctl, method, wire, eof>>
        /\ buffer' = <<>> /\ left' = 2 /\ auth_state' = "READ" /\ rv' = OK
    BY <1>13 DEF AuthInitRead, kSOCKSAuthUsernamePasswordResponseLen
  <2>3. TypeOK'
    BY <2>2 DEF TypeOK, AuthStates, OK
  <2>4. WriteInv'
    BY <1>1, <2>1, <2>2 DEF WriteInv, Writing
  <2>5. ReadInv' /\ ControlInv'
    <3>1. Len(buffer') = 0
      BY <2>2
    <3>2. QED BY <1>3, <2>1, <2>2, <3>1 DEF ReadInv, ControlInv
  <2>6. QED BY <2>3, <2>4, <2>5
<1>14. CASE AuthRead
  <2>1. auth_state = "READ" /\ do_auth /\ next_state = "AUTH" /\ ctl = "run"
    BY <1>14 DEF AuthRead, InAuth, Running
  <2>2. UNCHANGED <<creds, next_state, left, method, wire>> /\ auth_state' = "READ_COMPLETE"
    BY <1>14 DEF AuthRead
  <2>3. WriteInv'
    BY <1>1, <2>1, <2>2 DEF WriteInv, Writing
  <2>4. CASE TransportReads /\ UNCHANGED ctl
    <3>1. /\ rv' \in Int
          /\ eof' \in BOOLEAN
          /\ buffer' \in Seq(Byte)
          /\ rv' >= 0 => Len(buffer') + left = 2 + rv' /\ rv' <= left
          /\ rv' < 0 => Len(buffer') + left = 2
      BY <2>1, <2>4, ReadProgress DEF ReadInv
    <3>2. TypeOK'
      BY <2>2, <2>4, <3>1 DEF TypeOK, AuthStates
    <3>3. ReadInv' /\ ControlInv'
      BY <1>3, <2>1, <2>2, <2>4, <3>1 DEF ReadInv, ControlInv, InFlight, TypeOK
    <3>4. QED BY <2>3, <3>2, <3>3
  <2>5. CASE ctl' = "wait" /\ UNCHANGED <<rv, buffer, eof>>
    BY <1>3, <2>1, <2>2, <2>3, <2>5 DEF TypeOK, AuthStates, ReadInv, ControlInv, InFlight
  <2>6. QED BY <1>14, <2>4, <2>5 DEF AuthRead
<1>15. CASE ReadCallback
  <2>1. auth_state = "READ_COMPLETE" /\ next_state = "AUTH" /\ ctl = "wait"
    BY <1>15 DEF ReadCallback, ControlInv
  <2>2. UNCHANGED <<creds, next_state, auth_state, left, method, wire>> /\ ctl' = "run"
        /\ TransportReads
    BY <1>15 DEF ReadCallback
  <2>3. WriteInv'
    BY <1>1, <2>1, <2>2 DEF WriteInv, Writing
  <2>4. /\ rv' \in Int
        /\ eof' \in BOOLEAN
        /\ buffer' \in Seq(Byte)
        /\ rv' >= 0 => Len(buffer') + left = 2 + rv' /\ rv' <= left
        /\ rv' < 0 => Len(buffer') + left = 2
    <3>1. Len(buffer) + left = 2
      BY <2>1 DEF ReadInv, InFlight, TypeOK
    <3>2. QED BY <2>2, <3>1, ReadProgress
  <2>5. TypeOK'
    BY <2>2, <2>4 DEF TypeOK
  <2>6. ReadInv' /\ ControlInv'
    BY <1>3, <2>1, <2>2, <2>4 DEF ReadInv, ControlInv, InFlight, TypeOK
  <2>7. QED BY <2>3, <2>5, <2>6
<1>16. CASE AuthReadComplete
  <2>1. auth_state = "READ_COMPLETE" /\ do_auth /\ next_state = "AUTH" /\ ctl = "run"
    BY <1>16 DEF AuthReadComplete, InAuth, Running
  <2>2. UNCHANGED <<creds, next_state, buffer, ctl, method, wire, eof>>
    BY <1>16 DEF AuthReadComplete
  <2>3. CASE AuthError
    BY <1>1, <1>3, <2>1, <2>2, <2>3 DEF AuthError, TypeOK, AuthStates, WriteInv, ReadInv, ControlInv, Writing
  <2>4. CASE rv >= 0 /\ left' = left - rv /\ rv' = OK
             /\ auth_state' = IF left' = 0 THEN "DONE" ELSE "READ"
    <3>1. left' \in Nat /\ Len(buffer) + left' = 2
      BY <2>1, <2>4 DEF ReadInv, InFlight, TypeOK
    <3>2. TypeOK'
      BY <2>2, <2>4, <3>1 DEF TypeOK, AuthStates, OK
    <3>3. WriteInv'
      BY <1>1, <2>1, <2>2, <2>4 DEF WriteInv, Writing
    <3>4. Len(buffer) \in Nat
      BY LenProperties DEF TypeOK
    <3>5. ReadInv'
      <4>1. CASE left' = 0
        <5>1. auth_state' = "DONE" /\ buffer' = buffer
          BY <2>2, <2>4, <4>1
        <5>2. Len(buffer) = 2
          BY <3>1, <3>4, <4>1
        <5>3. QED BY <5>1, <5>2 DEF ReadInv
      <4>2. CASE left' # 0
        BY <2>2, <2>4, <3>1, <3>4, <4>2 DEF ReadInv
      <4>3. QED BY <4>1, <4>2
    <3>6. ControlInv'
      BY <1>1, <1>3, <2>1, <2>2, <2>4 DEF ControlInv
    <3>7. QED BY <3>2, <3>3, <3>5, <3>6
  <2>5. QED BY <1>16, <2>3, <2>4 DEF AuthReadComplete
<1>17. CASE AuthDone
  <2>1. auth_state = "DONE" /\ do_auth /\ next_state = "AUTH" /\ ctl = "run"
    BY <1>17 DEF AuthDone, InAuth, Running
  <2>2. UNCHANGED <<creds, buffer, left, ctl, method, wire, eof>> /\ auth_state' = "BAD"
    BY <1>17 DEF AuthDone
  <2>3. TypeOK'
    BY <1>17, <2>2 DEF AuthDone, AuthOK, TypeOK, AuthStates, OK, ERR
  <2>4. WriteInv' /\ ReadInv'
    BY <1>1, <2>1, <2>2 DEF WriteInv, ReadInv, Writing
  <2>5. CASE ProxyAccepts /\ AuthOK
    <3>1. buffer = <<1, 0>>
      <4>1. Len(buffer) = 2 /\ buffer \in Seq(Byte) /\ buffer[1] = 1 /\ buffer[2] = 0
        BY <2>1, <2>5 DEF ReadInv, TypeOK, ProxyAccepts
      <4>2. <<1, 0>> \in Seq(Byte) /\ Len(<<1, 0>>) = 2
        BY ByteAssumption DEF Byte
      <4>3. \A i \in 1 .. 2 : buffer[i] = <<1, 0>>[i]
        BY <4>1
      <4>4. QED BY <4>1, <4>2, <4>3, SeqEqual
    <3>2. wire = Message
      BY <2>1 DEF WriteInv
    <3>3. ControlInv'
      BY <1>1, <1>3, <2>1, <2>2, <2>5, <3>1, <3>2 DEF ControlInv, AuthOK
    <3>4. QED BY <2>3, <2>4, <3>3
  <2>6. CASE ~ProxyAccepts /\ rv' = ERR /\ UNCHANGED next_state
    <3>1. ControlInv'
      BY <1>1, <1>3, <2>1, <2>2, <2>6 DEF ControlInv
    <3>2. QED BY <2>3, <2>4, <3>1
  <2>7. QED BY <1>17, <2>5, <2>6 DEF AuthDone
<1>18. CASE AuthBad
  BY <1>1, <1>3, <1>18 DEF AuthBad, InAuth, Running, auth_vars, TypeOK, WriteInv, ReadInv,
                           ControlInv, Writing, InFlight
<1>19. CASE Handshake
  <2>1. next_state = "HANDSHAKE" /\ ctl = "run" /\ UNCHANGED <<creds, method, auth_vars>>
        /\ next_state' \in {"CONNECTED", "NONE"} /\ ctl' = "done" /\ rv' \in Int
    BY <1>19 DEF Handshake, Running, Return, OK, ERR
  <2>2. auth_state \in {"INIT_WRITE", "BAD"}
    BY <2>1 DEF ControlInv
  <2>3. TypeOK'
    BY <2>1 DEF TypeOK, auth_vars
  <2>4. WriteInv' /\ ReadInv'
    BY <1>1, <2>1, <2>2 DEF WriteInv, ReadInv, Writing, auth_vars
  <2>5. ControlInv'
    BY <1>1, <1>3, <2>1, <2>2 DEF ControlInv, auth_vars
  <2>6. QED BY <2>3, <2>4, <2>5
<1>20. CASE Disconnect
  BY <1>1, <1>3, <1>20 DEF Disconnect, auth_vars, TypeOK, WriteInv, ReadInv, ControlInv, Writing, InFlight
<1>21. QED
  BY <1>5, <1>6, <1>7, <1>8, <1>9, <1>10, <1>11, <1>12, <1>13, <1>14, <1>15, <1>16,
     <1>17, <1>18, <1>19, <1>20 DEF Next, LoopStep, AuthStep

\* The invariant holds however the transport splits the messages.
LEMMA Invariance == Spec => []IInv
<1>1. Init => IInv
  BY InitIInv
<1>2. IInv /\ [Next]_vars => IInv'
  BY NextIInv
<1>3. QED BY <1>1, <1>2, PTL DEF Spec

-----------------------------------------------------------------------------
(* What the proxy reads.                                                   *)

\* What stands in the concatenation of two sequences of bytes.
LEMMA ConcatBytes ==
    ASSUME NEW s \in Seq(Byte), NEW t \in Seq(Byte)
    PROVE  /\ s \o t \in Seq(Byte)
           /\ Len(s \o t) = Len(s) + Len(t)
           /\ \A i \in 1 .. Len(s) : (s \o t)[i] = s[i]
           /\ \A i \in 1 .. Len(t) : (s \o t)[Len(s) + i] = t[i]
<1>1. Len(s) \in Nat /\ Len(t) \in Nat
  BY LenProperties
<1>2. /\ s \o t \in Seq(Byte)
      /\ Len(s \o t) = Len(s) + Len(t)
      /\ \A i \in 1 .. Len(s) + Len(t) : (s \o t)[i] =
                     IF i <= Len(s) THEN s[i] ELSE t[i - Len(s)]
  BY ConcatProperties
<1>3. ASSUME NEW i \in 1 .. Len(t)
      PROVE  (s \o t)[Len(s) + i] = t[i]
  <2>1. Len(s) + i \in 1 .. Len(s) + Len(t) /\ ~(Len(s) + i <= Len(s))
        /\ (Len(s) + i) - Len(s) = i
    BY <1>1
  <2> QED
    BY <1>2, <2>1
<1> QED
  BY <1>1, <1>2, <1>3

\* A stretch of a sequence of bytes that holds what another one does.
LEMMA SubSeqIs ==
    ASSUME NEW s \in Seq(Byte), NEW t \in Seq(Byte), NEW m \in 1 .. Len(s) + 1,
           m - 1 + Len(t) <= Len(s),
           \A i \in 1 .. Len(t) : s[m - 1 + i] = t[i]
    PROVE  SubSeq(s, m, m - 1 + Len(t)) = t
<1> DEFINE n == m - 1 + Len(t)
           u == SubSeq(s, m, n)
<1>1. Len(s) \in Nat /\ Len(t) \in Nat /\ m \in Int /\ n \in Int
  BY LenProperties
<1>2. \A i \in m .. n : s[i] \in Byte
  <2>1. \A i \in m .. n : i \in 1 .. Len(s)
    BY <1>1
  <2> QED
    BY <2>1, ElementOfSeq
<1>3. /\ u \in Seq(Byte)
      /\ Len(u) = IF m <= n THEN n - m + 1 ELSE 0
      /\ \A i \in 1 .. n - m + 1 : u[i] = s[m + i - 1]
  BY <1>1, <1>2, SubSeqProperties
<1>4. n - m + 1 = Len(t) /\ (~(m <= n) => Len(t) = 0)
  BY <1>1
<1> HIDE DEF u, n
<1>5. Len(u) = Len(t)
  BY <1>1, <1>3, <1>4
<1>6. \A i \in 1 .. Len(t) : u[i] = t[i]
  <2> TAKE i \in 1 .. Len(t)
  <2>1. u[i] = s[m + i - 1] /\ m + i - 1 = m - 1 + i
    BY <1>1, <1>3, <1>4
  <2> QED
    BY <2>1
<1>7. u = t
  BY <1>3, <1>5, <1>6, SeqEqual
<1> QED
  BY <1>7 DEF u, n

\* The proxy's reading of the message is the inverse of its building, when
\* each length fits its byte.
LEMMA MessageDecodes ==
    ASSUME NEW c \in Credentials, Len(c.user) < ByteMod, Len(c.pass) < ByteMod
    PROVE  DecodesTo(AuthMessage(c), c)
<1> DEFINE user == c.user
           pass == c.pass
           a == <<1, Len(user) % ByteMod>>
           b == <<Len(pass) % ByteMod>>
           s1 == a \o user
           s2 == s1 \o b
           m == s2 \o pass
<1>1. user \in Seq(Byte) /\ pass \in Seq(Byte)
  <2>1. user \in Seq(Char) /\ pass \in Seq(Char) /\ Char \subseteq Byte
    BY CredentialsAssumption, CharAssumption DEF Byte
  <2> QED
    BY <2>1, SeqMonotonic, Zenon
<1> HIDE DEF user, pass
<1>2. Len(user) \in 0 .. ByteMod - 1 /\ Len(pass) \in 0 .. ByteMod - 1
  <2>1. Len(user) \in Nat /\ Len(pass) \in Nat
    BY <1>1, LenProperties
  <2> QED
    BY <2>1, ByteAssumption DEF user, pass
<1>3. Len(user) % ByteMod = Len(user) /\ Len(pass) % ByteMod = Len(pass)
  BY <1>2, ByteAssumption
<1>4. /\ a \in Seq(Byte) /\ Len(a) = 2 /\ a[2] = Len(user)
      /\ b \in Seq(Byte) /\ Len(b) = 1 /\ b[1] = Len(pass)
  BY <1>2, <1>3, ByteAssumption DEF Byte
<1>5. AuthMessage(c) = m
  BY DEF AuthMessage, user, pass
<1> HIDE DEF a, b
<1>6. /\ s1 \in Seq(Byte) /\ Len(s1) = 2 + Len(user)
      /\ s1[2] = Len(user)
      /\ \A i \in 1 .. Len(user) : s1[2 + i] = user[i]
  <2>1. /\ s1 \in Seq(Byte) /\ Len(s1) = Len(a) + Len(user)
        /\ \A i \in 1 .. Len(a) : s1[i] = a[i]
        /\ \A i \in 1 .. Len(user) : s1[Len(a) + i] = user[i]
    BY <1>1, <1>4, ConcatBytes
  <2> HIDE DEF s1
  <2> QED
    BY <1>4, <2>1
<1> HIDE DEF s1
<1>7. /\ s2 \in Seq(Byte) /\ Len(s2) = 3 + Len(user)
      /\ s2[2] = Len(user)
      /\ \A i \in 1 .. Len(user) : s2[2 + i] = user[i]
      /\ s2[3 + Len(user)] = Len(pass)
  <2>1. /\ s2 \in Seq(Byte) /\ Len(s2) = Len(s1) + Len(b)
        /\ \A i \in 1 .. Len(s1) : s2[i] = s1[i]
        /\ \A i \in 1 .. Len(b) : s2[Len(s1) + i] = b[i]
    BY <1>4, <1>6, ConcatBytes
  <2> HIDE DEF s2
  <2>2. Len(s2) = 3 + Len(user) /\ s2[2] = Len(user)
    BY <1>2, <1>4, <1>6, <2>1
  <2>3. \A i \in 1 .. Len(user) : s2[2 + i] = user[i]
    BY <1>2, <1>6, <2>1
  <2>4. s2[(2 + Len(user)) + 1] = Len(pass)
    BY <1>4, <1>6, <2>1
  <2>5. (2 + Len(user)) + 1 = 3 + Len(user)
    BY <1>2
  <2> QED
    BY <2>1, <2>2, <2>3, <2>4, <2>5
<1> HIDE DEF s2
<1>8. /\ m \in Seq(Byte) /\ Len(m) = 3 + Len(user) + Len(pass)
      /\ m[2] = Len(user)
      /\ \A i \in 1 .. Len(user) : m[2 + i] = user[i]
      /\ m[3 + Len(user)] = Len(pass)
      /\ \A i \in 1 .. Len(pass) : m[3 + Len(user) + i] = pass[i]
  <2>1. /\ m \in Seq(Byte) /\ Len(m) = Len(s2) + Len(pass)
        /\ \A i \in 1 .. Len(s2) : m[i] = s2[i]
        /\ \A i \in 1 .. Len(pass) : m[Len(s2) + i] = pass[i]
    BY <1>1, <1>7, ConcatBytes
  <2> HIDE DEF m
  <2> QED
    BY <1>2, <1>7, <2>1
<1> HIDE DEF m
<1>9. SubSeq(m, 3, 2 + Len(user)) = user
  <2>1. 3 \in 1 .. Len(m) + 1 /\ 3 - 1 + Len(user) <= Len(m)
        /\ \A i \in 1 .. Len(user) : m[3 - 1 + i] = user[i]
    BY <1>2, <1>8
  <2>2. SubSeq(m, 3, 3 - 1 + Len(user)) = user
    BY <1>1, <1>8, <2>1, SubSeqIs
  <2>3. 3 - 1 + Len(user) = 2 + Len(user)
    BY <1>2
  <2> QED
    BY <2>2, <2>3
<1>10. SubSeq(m, 4 + Len(user), 3 + Len(user) + Len(pass)) = pass
  <2> DEFINE k == 4 + Len(user)
  <2>1. k \in 1 .. Len(m) + 1 /\ k - 1 + Len(pass) <= Len(m)
    BY <1>2, <1>8
  <2>2. k - 1 = 3 + Len(user)
    BY <1>2
  <2>3. \A i \in 1 .. Len(pass) : m[k - 1 + i] = pass[i]
    BY <1>8, <2>2
  <2> HIDE DEF k
  <2>4. SubSeq(m, k, k - 1 + Len(pass)) = pass
    BY <1>1, <1>8, <2>1, <2>3, SubSeqIs
  <2> QED
    BY <2>2, <2>4 DEF k
<1>11. 3 + Len(user) <= Len(m)
  BY <1>2, <1>8
<1> QED
  BY <1>5, <1>8, <1>9, <1>10, <1>11 DEF DecodesTo, user, pass

-----------------------------------------------------------------------------
(* The theorems.                                                           *)

\* Every variable keeps its type; the bytes of the message and of the wire
\* are bytes whatever the lengths of the credentials (STATE_INIT_WRITE).
THEOREM TypeCorrect == Spec => []TypeOK
<1>1. IInv => TypeOK
  BY DEF IInv
<1>2. QED BY <1>1, Invariance, PTL

\* However the transport splits and delays the writes, the proxy receives a
\* prefix of the message, complete before the answer is read (STATE_WRITE,
\* STATE_WRITE_COMPLETE).
THEOREM WireIntegrity == Spec => []WireIsMessagePrefix
<1>1. IInv => WireIsMessagePrefix
  BY DEF IInv, WriteInv, WireIsMessagePrefix, Message
<1>2. QED BY <1>1, Invariance, PTL

\* The CONNECT handshake runs only on a stream whose proxy selected the
\* method offered and accepted the complete credentials (DoAuth, STATE_DONE).
THEOREM TunnelAuthenticated == Spec => []TunnelOnlyIfAuthenticated
<1>1. IInv => TunnelOnlyIfAuthenticated
  BY DEF IInv, ControlInv, TunnelOnlyIfAuthenticated, Message
<1>2. QED BY <1>1, Invariance, PTL

\* Credentials leave only after the proxy selected username/password (the
\* greeting macros).
THEOREM CredentialsRequested == Spec => []CredentialsOnlyOnRequest
<1>1. IInv => CredentialsOnlyOnRequest
  BY DEF IInv, WriteInv, ControlInv, CredentialsOnlyOnRequest
<1>2. QED BY <1>1, Invariance, PTL

\* The proxy that has received the whole message reads from it the user name
\* and the password of the endpoint, whatever their characters, as long as
\* each length fits its byte (STATE_INIT_WRITE).
THEOREM CredentialsArriveIntact == Spec => []ProxyReadsCredentials
<1>1. IInv => ProxyReadsCredentials
  BY MessageDecodes DEF IInv, TypeOK, WriteInv, ProxyReadsCredentials, Message
<1>2. QED BY <1>1, Invariance, PTL
=============================================================================
