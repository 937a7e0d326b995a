----------------------------- MODULE MCCheckout -----------------------------
(***************************************************************************)
(* Small instances of Checkout for TLC.  Two holds overlap in one seat, so *)
(* that a hold which lapses can be followed by a rival for the same seat.  *)
(***************************************************************************)
EXTENDS CheckoutInductive, TLC

CONSTANTS h1, h2, s1, s2, s3, t1, t2, e1, e2, e3

\* Two rival holds over the middle one of three seats.
RivalSeats == (h1 :> {s1, s2}) @@ (h2 :> {s2, s3})
RivalType == (s1 :> t1) @@ (s2 :> t1) @@ (s3 :> t1)
RivalEvents == (e1 :> h1) @@ (e2 :> h2)
RivalKinds == (e1 :> "payment.succeeded") @@ (e2 :> "payment.succeeded")

\* The capacity of a ticket type is set by hand, and may exceed the seats of
\* the session: it is not what keeps a seat from being sold twice.
RoomForAll == t1 :> 4

\* One hold, whose payment gets three kinds of events.
LoneSeats == h1 :> {s1}
LoneType == s1 :> t1
LoneEvents == (e1 :> h1) @@ (e2 :> h1) @@ (e3 :> h1)
LoneKinds == (e1 :> "payment.succeeded") @@ (e2 :> "payment.failed") @@ (e3 :> "payment.expired")

\* One hold, a capture and an event whose amount does not match.
TwoEvents == (e1 :> h1) @@ (e2 :> h1)
CaptureAndFailure == (e1 :> "payment.succeeded") @@ (e2 :> "payment.failed")

\* One hold and one capture.
OneEvent == e1 :> h1
OneCapture == e1 :> "payment.succeeded"

\* Two holds with no seat in common, two ticket types, and room for one seat
\* of the type that both holds want.
ApartSeats == (h1 :> {s1, s2}) @@ (h2 :> {s3})
ApartType == (s1 :> t1) @@ (s2 :> t2) @@ (s3 :> t2)
RoomForOne == (t1 :> 1) @@ (t2 :> 1)

Perms == Permutations(Calls) \cup Permutations(Handlers)
==============================================================================
