--------------------------- MODULE MCAddressSpace ---------------------------
(* AddressSpace on a small instance: tables of three entries. *)
EXTENDS AddressSpace

MCDeviceVA == <<0, 0, 0>>
MCFirstHeapVA == <<2, 0, 0>>
MCHeapVAs == <<<<2, 0, 1>>>>

(* One page of code and data, and the stack under another table. *)
MCImageVAs == <<<<1, 0, 0>>>>
MCStackVA == <<1, 1, 0>>

(* The data, a page next to it that is paged in, and one below 1 GiB. *)
MCTouched == {<<1, 0, 0>>, <<1, 0, 1>>, <<0, 1, 0>>}
=============================================================================
