----------------------------- MODULE SaveState -----------------------------
(***************************************************************************)
(* retro_reset, retro_serialize and retro_unserialize of                   *)
(* src/libretro-main.cpp.  They work on two coordinates that the core has  *)
(* inherited from the libretro sample and that nothing else uses; the game *)
(* itself is in the engine of Ccdl.tla, which none of them touches.        *)
(***************************************************************************)
EXTENDS Integers, Sequences

CONSTANTS
  StateBytes,   \* bound: bytes of a state the frontend has from elsewhere
  BufferSizes   \* bound: sizes of the frontend's state buffers

ASSUME SaveStateAssumption ==
  /\ StateBytes \subseteq 0..255
  /\ BufferSizes \subseteq Nat

VARIABLES
  x_coord, y_coord,
  data,         \* the frontend's state buffer, <<>> before it is filled
  saved         \* the coordinates when data was serialized, or <<>>

saveVars == <<x_coord, y_coord, data, saved>>

SaveInit ==
  /\ x_coord = 0 /\ y_coord = 0
  /\ data = <<>> /\ saved = <<>>

-----------------------------------------------------------------------------
retro_serialize_size == 2

\* uint8_t of an unsigned; data & 31.
Uint8(n)  == n % 256
And31(n)  == n % 32

RetroReset ==
  /\ x_coord' = 0 /\ y_coord' = 0
  /\ UNCHANGED <<data, saved>>

\* Mutant: the coordinates are written the wrong way round.
RetroSerializeSwapped(length) ==
  /\ length >= retro_serialize_size
  /\ data' = <<Uint8(y_coord), Uint8(x_coord)>>
  /\ saved' = <<x_coord, y_coord>>
  /\ UNCHANGED <<x_coord, y_coord>>

\* A buffer that is too small is refused, and nothing changes.
RetroSerialize(length) ==
  /\ length >= retro_serialize_size
  /\ data' = <<Uint8(x_coord), Uint8(y_coord)>>
  /\ saved' = <<x_coord, y_coord>>
  /\ UNCHANGED <<x_coord, y_coord>>

\* Of a state the frontend has kept from another session nothing is known.
LoadOtherState ==
  /\ \E a, b \in StateBytes : data' = <<a, b>>
  /\ saved' = <<>>
  /\ UNCHANGED <<x_coord, y_coord>>

\* Mutant: the bytes are not masked.
RetroUnserializeUnmasked(length) ==
  /\ data # <<>> /\ length >= retro_serialize_size
  /\ x_coord' = data[1]
  /\ y_coord' = data[2]
  /\ UNCHANGED <<data, saved>>

RetroUnserialize(length) ==
  /\ data # <<>> /\ length >= retro_serialize_size
  /\ x_coord' = And31(data[1])
  /\ y_coord' = And31(data[2])
  /\ UNCHANGED <<data, saved>>

SaveNext ==
  \/ RetroReset
  \/ LoadOtherState
  \/ \E length \in BufferSizes : RetroSerialize(length) \/ RetroUnserialize(length)

-----------------------------------------------------------------------------
\* The coordinates keep to five bits, whatever a frontend loads.
SaveTypeOK ==
  /\ x_coord \in 0..31 /\ y_coord \in 0..31
  /\ data \in {<<>>} \cup ((0..255) \X (0..255))
  /\ saved \in {<<>>} \cup ((0..31) \X (0..31))

\* What retro_serialize has written is read back by retro_unserialize as the
\* coordinates it was written from: neither the cut to a byte in the one nor
\* the mask in the other loses anything, because no sequence of calls, with
\* whatever bytes the frontend passes, leaves a coordinate above 31.
RoundTrip ==
  saved # <<>> => And31(data[1]) = saved[1] /\ And31(data[2]) = saved[2]

=============================================================================
