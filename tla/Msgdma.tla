------------------------------- MODULE Msgdma -------------------------------
(***************************************************************************)
(* The driver of an mSGDMA device (altera_msgdma.c), as core 0 uses it:    *)
(* standard descriptors, asynchronous transfers, no callback and so no     *)
(* interrupt.  The display calls again until a transfer is accepted        *)
(* (ece423_vid_ctl.c:110, 193, 202); the accelerator does not look at the  *)
(* result, but has waited for the device (idct_ycbcr_to_rgb_accel.c).      *)
(***************************************************************************)
EXTENDS Integers, Sequences

CONSTANTS Payloads,            (* what is transferred                      *)
          descriptor_fifo_depth,  (* 16 in the source                      *)
          MaxCounter           (* 5000 rounds of waiting in the source     *)

ASSUME MsgdmaAssumption == /\ descriptor_fifo_depth \in Nat \ {0}
                           /\ MaxCounter \in Nat

VARIABLES
  caller,       (* display or accelerator                                  *)
  descriptors,  (* external: the descriptor FIFO of the dispatcher         *)
  transfer,     (* external: what the device is transferring, in a tuple   *)
  stopped,      (* external: STOP_DESCRIPTORS of the control register      *)
  pc, request, rounds  (* of a call; rounds is `counter' in the source     *)

hardware == <<descriptors, transfer, stopped>>
dmaVars == <<caller, hardware, pc, request, rounds>>

fill_level == Len(descriptors)

Busy == transfer # <<>> \/ descriptors # <<>>

ENOSPC == 0 - 28
ETIME == 0 - 62

DmaInit == /\ caller \in {"display", "accelerator"}
           /\ descriptors = <<>>
           /\ transfer = <<>>
           /\ stopped = FALSE
           /\ pc = "idle"
           /\ request = <<>>
           /\ rounds = 0

(* A descriptor is made and handed over.  The accelerator has waited for   *)
(* the end of the frame before (wait_for_ycbcr_to_rgb_finsh).              *)
async_transfer(b) ==
  /\ pc = "idle"
  /\ caller = "accelerator" => ~Busy
  /\ request' = <<b>>
  /\ pc' = "check"
  /\ UNCHANGED <<caller, hardware, rounds>>

Return(result) ==
  IF result # 0 /\ caller = "display"
  THEN pc' = "check" /\ UNCHANGED request
  ELSE pc' = "idle" /\ request' = <<>>

(* Full: the driver returns at once.                                       *)
OverFull == descriptor_fifo_depth < fill_level   (* mutant *)
Full == descriptor_fifo_depth <= fill_level

Check ==
  /\ pc = "check"
  /\ IF Full THEN Return(ENOSPC) ELSE pc' = "stop" /\ UNCHANGED request
  /\ UNCHANGED <<caller, hardware, rounds>>

Stop ==
  /\ pc = "stop"
  /\ stopped' = TRUE
  /\ rounds' = 0
  /\ pc' = "write"
  /\ UNCHANGED <<caller, descriptors, transfer, request>>

(* Until there is room, or too long: then the device stays stopped.        *)
WriteDescriptor ==
  /\ pc = "write"
  /\ IF fill_level < descriptor_fifo_depth
     THEN /\ descriptors' = descriptors \o request
          /\ pc' = "run"
          /\ UNCHANGED <<request, rounds>>
     ELSE /\ UNCHANGED descriptors
          /\ IF MaxCounter <= rounds
             THEN Return(ETIME) /\ UNCHANGED rounds
             ELSE rounds' = rounds + 1 /\ UNCHANGED <<pc, request>>
  /\ UNCHANGED <<caller, transfer, stopped>>

Run ==
  /\ pc = "run"
  /\ stopped' = FALSE
  /\ rounds' = 0
  /\ Return(0)
  /\ UNCHANGED <<caller, descriptors, transfer>>

(* The device issues a descriptor unless it is stopped, and finishes what  *)
(* it has begun.                                                           *)
Issue ==
  /\ ~stopped
  /\ transfer = <<>>
  /\ descriptors # <<>>
  /\ transfer' = <<Head(descriptors)>>
  /\ descriptors' = Tail(descriptors)
  /\ UNCHANGED <<caller, stopped, pc, request, rounds>>

Finish ==
  /\ transfer # <<>>
  /\ transfer' = <<>>
  /\ UNCHANGED <<caller, descriptors, stopped, pc, request, rounds>>

Driver == Check \/ Stop \/ WriteDescriptor \/ Run

Device == Issue \/ Finish

DmaNext == (\E b \in Payloads : async_transfer(b)) \/ Driver \/ Device

(* A call runs to its end; the streams of the display and the accelerator  *)
(* take the data, so a transfer ends.                                      *)
DmaSpec == DmaInit /\ [][DmaNext]_dmaVars /\ WF_dmaVars(Driver) /\ WF_dmaVars(Device)

-----------------------------------------------------------------------------
Requests == INSTANCE TransferQueue WITH
  MaxPending <- descriptor_fifo_depth + 2,
  pending    <- transfer \o descriptors \o IF pc = "run" THEN <<>> ELSE request

(* Whichever caller uses the device and however full it is, every transfer *)
(* asked for is carried out once, in order, and at last: none is lost by a *)
(* result that nobody looks at, and no call leaves the device stopped      *)
(* (altera_msgdma.c:346-501, idct_ycbcr_to_rgb_accel.c:28-37).             *)
ImplementsTransferQueue == Requests!Spec
=============================================================================
