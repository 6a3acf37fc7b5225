------------------------------ MODULE LibV120irqd ------------------------------
(***************************************************************************)
(* libV120irqd/interrupts.c: the messages of the client/server protocol    *)
(* and what each library call makes of the message it reads back.          *)
(***************************************************************************)
EXTENDS Selector

v120_irq_message_select ==
    {"NAK", "ACK", "REQUEST_IRQ", "RELEASE_IRQ", "IRQ_SIGNAL", "SERVER_STATUS"}

response_buffer == [msg : v120_irq_message_select, selector : v120irqd_selector]

WithSelector(m, sel) == [msg |-> m, selector |-> sel]
Plain(m) == WithSelector(m, ZeroSelector)

\* The library calls a client blocks in after sending its message, and the
\* message each sends.
Calls == {"request", "release", "interrupt", "status"}

MessageOf(call, sel) ==
    CASE call = "request"   -> WithSelector("REQUEST_IRQ", sel)
      [] call = "release"   -> WithSelector("RELEASE_IRQ", sel)
      [] call = "interrupt" -> WithSelector("IRQ_SIGNAL", sel)
      [] call = "status"    -> Plain("SERVER_STATUS")

\* v120irqd_request, _release and _interrupt (client and server side alike)
\* take the next message on the socket as the answer, whatever it is.
Answer(m) ==
    CASE m.msg = "ACK" -> "OK"
      [] m.msg = "NAK" -> "EPERM"
      [] OTHER         -> "EBADMSG"

\* v120irqd_status and v120irqd_getinterrupt want one kind of message.
Wanted(kind, m) == IF m.msg = kind THEN "OK" ELSE "EBADMSG"

ReturnOf(call, m) ==
    IF call = "status" THEN Wanted("SERVER_STATUS", m) ELSE Answer(m)
===============================================================================
