------------------------------- MODULE MCCart -------------------------------
(* Instances of Cart for TLC. *)
EXTENDS Cart

CONSTANTS phone, tablet, ann, bob, tea, salt

\* One device that two customers share, and two devices of one customer.
MCSharedPhone == phone :> {ann, bob}
MCTwoDevices == (phone :> {ann}) @@ (tablet :> {ann})

\* The two devices of one customer are interchangeable.
DeviceSymmetry == Permutations(Devices)
=============================================================================
