---------------------------- MODULE BookingTerms ----------------------------
(* What BookingCore and BookingViews both speak of: who has to do with a      *)
(* booking, and the sets of its statuses that decide what he may do or see.   *)

CONSTANTS
    Drivers, Stores,
    Handlers,   \* requests and jobs that can be under way at one time
    None        \* an absent driver, store or booking

PickupLeg   == {"driver_assigned", "driver_arrived", "picked_up", "at_store"}
DeliveryLeg == {"return_driver_assigned", "out_for_return", "arrived_for_delivery"}

AwaitingReturn == {"final_payment_captured", "return_requested"}

\* driver_cancelled_critical is only ever set by an administrator.
Terminal == {"delivered", "cancelled", "driver_cancelled_critical"}

==============================================================================
