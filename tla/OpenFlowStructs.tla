-------------------------- MODULE OpenFlowStructs ---------------------------
(***************************************************************************)
(* The structs of openflow.h and of header_defu.h, field by field, each    *)
(* with the size that its OFP_ASSERT states, and the packet headers with   *)
(* the size of the header on the wire.                                     *)
(***************************************************************************)
EXTENDS CLayout

ofp_header ==
  [size |-> 8, fields |-> <<<<"version", U8>>, <<"type", U8>>,
    <<"length", U16>>, <<"xid", U32>>>>]

ofp_hello_elem_header ==
  [size |-> 4, fields |-> <<<<"type", U16>>, <<"length", U16>>>>]

ofp_hello_elem_versionbitmap ==
  [size |-> 4, fields |-> <<<<"type", U16>>, <<"length", U16>>,
    <<"bitmaps", Array(U32, 0)>>>>]

ofp_hello ==
  [size |-> 8, fields |-> <<<<"header", Struct(ofp_header)>>,
    <<"elements", Array(Struct(ofp_hello_elem_header), 0)>>>>]

ofp_switch_config ==
  [size |-> 12, fields |-> <<<<"header", Struct(ofp_header)>>,
    <<"flags", U16>>, <<"miss_send_len", U16>>>>]

\* A bug: a pad byte is missing, which the size does not show.
ofp_table_mod_short ==
  [size |-> 16, fields |-> <<<<"header", Struct(ofp_header)>>,
    <<"table_id", U8>>, <<"pad", Bytes(2)>>, <<"config", U32>>>>]

ofp_table_mod ==
  [size |-> 16, fields |-> <<<<"header", Struct(ofp_header)>>,
    <<"table_id", U8>>, <<"pad", Bytes(3)>>, <<"config", U32>>>>]

ofp_port ==
  [size |-> 64, fields |-> <<<<"port_no", U32>>, <<"pad", Bytes(4)>>,
    <<"hw_addr", Bytes(6)>>, <<"pad2", Bytes(2)>>, <<"name", Bytes(16)>>,
    <<"config", U32>>, <<"state", U32>>, <<"curr", U32>>,
    <<"advertised", U32>>, <<"supported", U32>>, <<"peer", U32>>,
    <<"curr_speed", U32>>, <<"max_speed", U32>>>>]

ofp_switch_features ==
  [size |-> 32, fields |-> <<<<"header", Struct(ofp_header)>>,
    <<"datapath_id", U64>>, <<"n_buffers", U32>>, <<"n_tables", U8>>,
    <<"auxiliary_id", U8>>, <<"pad", Bytes(2)>>, <<"capabilities", U32>>,
    <<"reserved", U32>>>>]

ofp_port_status ==
  [size |-> 80, fields |-> <<<<"header", Struct(ofp_header)>>,
    <<"reason", U8>>, <<"pad", Bytes(7)>>, <<"desc", Struct(ofp_port)>>>>]

ofp_port_mod ==
  [size |-> 40, fields |-> <<<<"header", Struct(ofp_header)>>,
    <<"port_no", U32>>, <<"pad", Bytes(4)>>, <<"hw_addr", Bytes(6)>>,
    <<"pad2", Bytes(2)>>, <<"config", U32>>, <<"mask", U32>>,
    <<"advertise", U32>>, <<"pad3", Bytes(4)>>>>]

ofp_match ==
  [size |-> 8, fields |-> <<<<"type", U16>>, <<"length", U16>>,
    <<"oxm_fields", Bytes(0)>>, <<"pad", Bytes(4)>>>>]

ofp_oxm_experimenter_header ==
  [size |-> 8, fields |-> <<<<"oxm_header", U32>>, <<"experimenter", U32>>>>]

ofp_action_header ==
  [size |-> 8, fields |-> <<<<"type", U16>>, <<"len", U16>>,
    <<"pad", Bytes(4)>>>>]

ofp_action_output ==
  [size |-> 16, fields |-> <<<<"type", U16>>, <<"len", U16>>, <<"port", U32>>,
    <<"max_len", U16>>, <<"pad", Bytes(6)>>>>]

ofp_action_mpls_ttl ==
  [size |-> 8, fields |-> <<<<"type", U16>>, <<"len", U16>>,
    <<"mpls_ttl", U8>>, <<"pad", Bytes(3)>>>>]

ofp_action_push ==
  [size |-> 8, fields |-> <<<<"type", U16>>, <<"len", U16>>,
    <<"ethertype", U16>>, <<"pad", Bytes(2)>>>>]

ofp_action_pop_mpls ==
  [size |-> 8, fields |-> <<<<"type", U16>>, <<"len", U16>>,
    <<"ethertype", U16>>, <<"pad", Bytes(2)>>>>]

ofp_action_group ==
  [size |-> 8, fields |-> <<<<"type", U16>>, <<"len", U16>>,
    <<"group_id", U32>>>>]

ofp_action_nw_ttl ==
  [size |-> 8, fields |-> <<<<"type", U16>>, <<"len", U16>>, <<"nw_ttl", U8>>,
    <<"pad", Bytes(3)>>>>]

ofp_action_set_field ==
  [size |-> 8, fields |-> <<<<"type", U16>>, <<"len", U16>>,
    <<"field", Bytes(4)>>>>]

ofp_action_experimenter_header ==
  [size |-> 8, fields |-> <<<<"type", U16>>, <<"len", U16>>,
    <<"experimenter", U32>>>>]

ofp_instruction ==
  [size |-> 4, fields |-> <<<<"type", U16>>, <<"len", U16>>>>]

ofp_instruction_goto_table ==
  [size |-> 8, fields |-> <<<<"type", U16>>, <<"len", U16>>,
    <<"table_id", U8>>, <<"pad", Bytes(3)>>>>]

ofp_instruction_write_metadata ==
  [size |-> 24, fields |-> <<<<"type", U16>>, <<"len", U16>>,
    <<"pad", Bytes(4)>>, <<"metadata", U64>>, <<"metadata_mask", U64>>>>]

ofp_instruction_actions ==
  [size |-> 8, fields |-> <<<<"type", U16>>, <<"len", U16>>,
    <<"pad", Bytes(4)>>, <<"actions", Array(Struct(ofp_action_header), 0)>>>>]

ofp_instruction_meter ==
  [size |-> 8, fields |-> <<<<"type", U16>>, <<"len", U16>>,
    <<"meter_id", U32>>>>]

ofp_instruction_experimenter ==
  [size |-> 8, fields |-> <<<<"type", U16>>, <<"len", U16>>,
    <<"experimenter", U32>>>>]

ofp_flow_mod ==
  [size |-> 56, fields |-> <<<<"header", Struct(ofp_header)>>,
    <<"cookie", U64>>, <<"cookie_mask", U64>>, <<"table_id", U8>>,
    <<"command", U8>>, <<"idle_timeout", U16>>, <<"hard_timeout", U16>>,
    <<"priority", U16>>, <<"buffer_id", U32>>, <<"out_port", U32>>,
    <<"out_group", U32>>, <<"flags", U16>>, <<"pad", Bytes(2)>>,
    <<"match", Struct(ofp_match)>>>>]

ofp_bucket ==
  [size |-> 16, fields |-> <<<<"len", U16>>, <<"weight", U16>>,
    <<"watch_port", U32>>, <<"watch_group", U32>>, <<"pad", Bytes(4)>>,
    <<"actions", Array(Struct(ofp_action_header), 0)>>>>]

ofp_group_mod ==
  [size |-> 16, fields |-> <<<<"header", Struct(ofp_header)>>,
    <<"command", U16>>, <<"type", U8>>, <<"pad", U8>>, <<"group_id", U32>>,
    <<"buckets", Array(Struct(ofp_bucket), 0)>>>>]

ofp_packet_out ==
  [size |-> 24, fields |-> <<<<"header", Struct(ofp_header)>>,
    <<"buffer_id", U32>>, <<"in_port", U32>>, <<"actions_len", U16>>,
    <<"pad", Bytes(6)>>, <<"actions", Array(Struct(ofp_action_header), 0)>>>>]

ofp_packet_in ==
  [size |-> 32, fields |-> <<<<"header", Struct(ofp_header)>>,
    <<"buffer_id", U32>>, <<"total_len", U16>>, <<"reason", U8>>,
    <<"table_id", U8>>, <<"cookie", U64>>, <<"match", Struct(ofp_match)>>>>]

ofp_flow_removed ==
  [size |-> 56, fields |-> <<<<"header", Struct(ofp_header)>>,
    <<"cookie", U64>>, <<"priority", U16>>, <<"reason", U8>>,
    <<"table_id", U8>>, <<"duration_sec", U32>>, <<"duration_nsec", U32>>,
    <<"idle_timeout", U16>>, <<"hard_timeout", U16>>, <<"packet_count", U64>>,
    <<"byte_count", U64>>, <<"match", Struct(ofp_match)>>>>]

ofp_meter_band_header ==
  [size |-> 12, fields |-> <<<<"type", U16>>, <<"len", U16>>, <<"rate", U32>>,
    <<"burst_size", U32>>>>]

ofp_meter_band_drop ==
  [size |-> 16, fields |-> <<<<"type", U16>>, <<"len", U16>>, <<"rate", U32>>,
    <<"burst_size", U32>>, <<"pad", Bytes(4)>>>>]

ofp_meter_band_dscp_remark ==
  [size |-> 16, fields |-> <<<<"type", U16>>, <<"len", U16>>, <<"rate", U32>>,
    <<"burst_size", U32>>, <<"prec_level", U8>>, <<"pad", Bytes(3)>>>>]

ofp_meter_band_experimenter ==
  [size |-> 16, fields |-> <<<<"type", U16>>, <<"len", U16>>, <<"rate", U32>>,
    <<"burst_size", U32>>, <<"experimenter", U32>>>>]

ofp_meter_mod ==
  [size |-> 16, fields |-> <<<<"header", Struct(ofp_header)>>,
    <<"command", U16>>, <<"flags", U16>>, <<"meter_id", U32>>,
    <<"bands", Array(Struct(ofp_meter_band_header), 0)>>>>]

ofp_error_msg ==
  [size |-> 12, fields |-> <<<<"header", Struct(ofp_header)>>,
    <<"type", U16>>, <<"code", U16>>, <<"data", Bytes(0)>>>>]

ofp_error_experimenter_msg ==
  [size |-> 16, fields |-> <<<<"header", Struct(ofp_header)>>,
    <<"type", U16>>, <<"exp_type", U16>>, <<"experimenter", U32>>,
    <<"data", Bytes(0)>>>>]

ofp_multipart_request ==
  [size |-> 16, fields |-> <<<<"header", Struct(ofp_header)>>,
    <<"type", U16>>, <<"flags", U16>>, <<"pad", Bytes(4)>>,
    <<"body", Bytes(0)>>>>]

ofp_multipart_reply ==
  [size |-> 16, fields |-> <<<<"header", Struct(ofp_header)>>,
    <<"type", U16>>, <<"flags", U16>>, <<"pad", Bytes(4)>>,
    <<"body", Bytes(0)>>>>]

ofp_desc ==
  [size |-> 1056, fields |-> <<<<"mfr_desc", Bytes(256)>>,
    <<"hw_desc", Bytes(256)>>, <<"sw_desc", Bytes(256)>>,
    <<"serial_num", Bytes(32)>>, <<"dp_desc", Bytes(256)>>>>]

ofp_flow_stats_request ==
  [size |-> 40, fields |-> <<<<"table_id", U8>>, <<"pad", Bytes(3)>>,
    <<"out_port", U32>>, <<"out_group", U32>>, <<"pad2", Bytes(4)>>,
    <<"cookie", U64>>, <<"cookie_mask", U64>>,
    <<"match", Struct(ofp_match)>>>>]

ofp_flow_stats ==
  [size |-> 56, fields |-> <<<<"length", U16>>, <<"table_id", U8>>,
    <<"pad", U8>>, <<"duration_sec", U32>>, <<"duration_nsec", U32>>,
    <<"priority", U16>>, <<"idle_timeout", U16>>, <<"hard_timeout", U16>>,
    <<"flags", U16>>, <<"pad2", Bytes(4)>>, <<"cookie", U64>>,
    <<"packet_count", U64>>, <<"byte_count", U64>>,
    <<"match", Struct(ofp_match)>>>>]

ofp_aggregate_stats_request ==
  [size |-> 40, fields |-> <<<<"table_id", U8>>, <<"pad", Bytes(3)>>,
    <<"out_port", U32>>, <<"out_group", U32>>, <<"pad2", Bytes(4)>>,
    <<"cookie", U64>>, <<"cookie_mask", U64>>,
    <<"match", Struct(ofp_match)>>>>]

ofp_aggregate_stats_reply ==
  [size |-> 24, fields |-> <<<<"packet_count", U64>>, <<"byte_count", U64>>,
    <<"flow_count", U32>>, <<"pad", Bytes(4)>>>>]

ofp_table_feature_prop_header ==
  [size |-> 4, fields |-> <<<<"type", U16>>, <<"length", U16>>>>]

ofp_table_feature_prop_instructions ==
  [size |-> 4, fields |-> <<<<"type", U16>>, <<"length", U16>>,
    <<"instruction_ids", Array(Struct(ofp_instruction), 0)>>>>]

ofp_table_feature_prop_next_tables ==
  [size |-> 4, fields |-> <<<<"type", U16>>, <<"length", U16>>,
    <<"next_table_ids", Bytes(0)>>>>]

ofp_table_feature_prop_actions ==
  [size |-> 4, fields |-> <<<<"type", U16>>, <<"length", U16>>,
    <<"action_ids", Array(Struct(ofp_action_header), 0)>>>>]

ofp_table_feature_prop_oxm ==
  [size |-> 4, fields |-> <<<<"type", U16>>, <<"length", U16>>,
    <<"oxm_ids", Array(U32, 0)>>>>]

ofp_table_feature_prop_experimenter ==
  [size |-> 12, fields |-> <<<<"type", U16>>, <<"length", U16>>,
    <<"experimenter", U32>>, <<"exp_type", U32>>,
    <<"experimenter_data", Array(U32, 0)>>>>]

ofp_table_features ==
  [size |-> 64, fields |-> <<<<"length", U16>>, <<"table_id", U8>>,
    <<"pad", Bytes(5)>>, <<"name", Bytes(32)>>, <<"metadata_match", U64>>,
    <<"metadata_write", U64>>, <<"config", U32>>, <<"max_entries", U32>>,
    <<"properties", Array(Struct(ofp_table_feature_prop_header), 0)>>>>]

ofp_table_stats ==
  [size |-> 24, fields |-> <<<<"table_id", U8>>, <<"pad", Bytes(3)>>,
    <<"active_count", U32>>, <<"lookup_count", U64>>,
    <<"matched_count", U64>>>>]

ofp_port_stats_request ==
  [size |-> 8, fields |-> <<<<"port_no", U32>>, <<"pad", Bytes(4)>>>>]

ofp_port_stats ==
  [size |-> 112, fields |-> <<<<"port_no", U32>>, <<"pad", Bytes(4)>>,
    <<"rx_packets", U64>>, <<"tx_packets", U64>>, <<"rx_bytes", U64>>,
    <<"tx_bytes", U64>>, <<"rx_dropped", U64>>, <<"tx_dropped", U64>>,
    <<"rx_errors", U64>>, <<"tx_errors", U64>>, <<"rx_frame_err", U64>>,
    <<"rx_over_err", U64>>, <<"rx_crc_err", U64>>, <<"collisions", U64>>,
    <<"duration_sec", U32>>, <<"duration_nsec", U32>>>>]

ofp_group_stats_request ==
  [size |-> 8, fields |-> <<<<"group_id", U32>>, <<"pad", Bytes(4)>>>>]

ofp_bucket_counter ==
  [size |-> 16, fields |-> <<<<"packet_count", U64>>, <<"byte_count", U64>>>>]

ofp_group_stats ==
  [size |-> 40, fields |-> <<<<"length", U16>>, <<"pad", Bytes(2)>>,
    <<"group_id", U32>>, <<"ref_count", U32>>, <<"pad2", Bytes(4)>>,
    <<"packet_count", U64>>, <<"byte_count", U64>>, <<"duration_sec", U32>>,
    <<"duration_nsec", U32>>,
    <<"bucket_stats", Array(Struct(ofp_bucket_counter), 0)>>>>]

ofp_group_desc ==
  [size |-> 8, fields |-> <<<<"length", U16>>, <<"type", U8>>, <<"pad", U8>>,
    <<"group_id", U32>>, <<"buckets", Array(Struct(ofp_bucket), 0)>>>>]

ofp_group_features ==
  [size |-> 40, fields |-> <<<<"types", U32>>, <<"capabilities", U32>>,
    <<"max_groups", Array(U32, 4)>>, <<"actions", Array(U32, 4)>>>>]

ofp_meter_multipart_request ==
  [size |-> 8, fields |-> <<<<"meter_id", U32>>, <<"pad", Bytes(4)>>>>]

ofp_meter_band_stats ==
  [size |-> 16, fields |-> <<<<"packet_band_count", U64>>,
    <<"byte_band_count", U64>>>>]

ofp_meter_stats ==
  [size |-> 40, fields |-> <<<<"meter_id", U32>>, <<"len", U16>>,
    <<"pad", Bytes(6)>>, <<"flow_count", U32>>, <<"packet_in_count", U64>>,
    <<"byte_in_count", U64>>, <<"duration_sec", U32>>,
    <<"duration_nsec", U32>>,
    <<"band_stats", Array(Struct(ofp_meter_band_stats), 0)>>>>]

ofp_meter_config ==
  [size |-> 8, fields |-> <<<<"length", U16>>, <<"flags", U16>>,
    <<"meter_id", U32>>,
    <<"bands", Array(Struct(ofp_meter_band_header), 0)>>>>]

ofp_meter_features ==
  [size |-> 16, fields |-> <<<<"max_meter", U32>>, <<"band_types", U32>>,
    <<"capabilities", U32>>, <<"max_bands", U8>>, <<"max_color", U8>>,
    <<"pad", Bytes(2)>>>>]

ofp_experimenter_multipart_header ==
  [size |-> 8, fields |-> <<<<"experimenter", U32>>, <<"exp_type", U32>>>>]

ofp_experimenter_header ==
  [size |-> 16, fields |-> <<<<"header", Struct(ofp_header)>>,
    <<"experimenter", U32>>, <<"exp_type", U32>>>>]

ofp_queue_prop_header ==
  [size |-> 8, fields |-> <<<<"property", U16>>, <<"len", U16>>,
    <<"pad", Bytes(4)>>>>]

ofp_queue_prop_min_rate ==
  [size |-> 16, fields |-> <<<<"prop_header", Struct(ofp_queue_prop_header)>>,
    <<"rate", U16>>, <<"pad", Bytes(6)>>>>]

ofp_queue_prop_max_rate ==
  [size |-> 16, fields |-> <<<<"prop_header", Struct(ofp_queue_prop_header)>>,
    <<"rate", U16>>, <<"pad", Bytes(6)>>>>]

ofp_queue_prop_experimenter ==
  [size |-> 16, fields |-> <<<<"prop_header", Struct(ofp_queue_prop_header)>>,
    <<"experimenter", U32>>, <<"pad", Bytes(4)>>, <<"data", Bytes(0)>>>>]

ofp_packet_queue ==
  [size |-> 16, fields |-> <<<<"queue_id", U32>>, <<"port", U32>>,
    <<"len", U16>>, <<"pad", Bytes(6)>>,
    <<"properties", Array(Struct(ofp_queue_prop_header), 0)>>>>]

ofp_queue_get_config_request ==
  [size |-> 16, fields |-> <<<<"header", Struct(ofp_header)>>,
    <<"port", U32>>, <<"pad", Bytes(4)>>>>]

ofp_queue_get_config_reply ==
  [size |-> 16, fields |-> <<<<"header", Struct(ofp_header)>>,
    <<"port", U32>>, <<"pad", Bytes(4)>>,
    <<"queues", Array(Struct(ofp_packet_queue), 0)>>>>]

ofp_action_set_queue ==
  [size |-> 8, fields |-> <<<<"type", U16>>, <<"len", U16>>,
    <<"queue_id", U32>>>>]

ofp_queue_stats_request ==
  [size |-> 8, fields |-> <<<<"port_no", U32>>, <<"queue_id", U32>>>>]

ofp_queue_stats ==
  [size |-> 40, fields |-> <<<<"port_no", U32>>, <<"queue_id", U32>>,
    <<"tx_bytes", U64>>, <<"tx_packets", U64>>, <<"tx_errors", U64>>,
    <<"duration_sec", U32>>, <<"duration_nsec", U32>>>>]

ofp_role_request ==
  [size |-> 24, fields |-> <<<<"header", Struct(ofp_header)>>,
    <<"role", U32>>, <<"pad", Bytes(4)>>, <<"generation_id", U64>>>>]

ofp_async_config ==
  [size |-> 32, fields |-> <<<<"header", Struct(ofp_header)>>,
    <<"packet_in_mask", Array(U32, 2)>>,
    <<"port_status_mask", Array(U32, 2)>>,
    <<"flow_removed_mask", Array(U32, 2)>>>>]

-----------------------------------------------------------------------------
sniff_ethernet ==
  [size |-> 14, fields |-> <<<<"ether_dhost", Bytes(6)>>, <<"ether_shost", Bytes(6)>>,
    <<"ether_type", U16>>>>]

sniff_ip ==
  [size |-> 20, fields |-> <<<<"ip_vhl", U8>>, <<"ip_tos", U8>>, <<"ip_len", U16>>,
    <<"ip_id", U16>>, <<"ip_off", U16>>, <<"ip_ttl", U8>>, <<"ip_p", U8>>,
    <<"ip_sum", U16>>, <<"ip_src", U32>>, <<"ip_dst", U32>>>>]

sniff_tcp ==
  [size |-> 20, fields |-> <<<<"th_sport", U16>>, <<"th_dport", U16>>, <<"th_seq", U32>>,
    <<"th_ack", U32>>, <<"th_offx2", U8>>, <<"th_flags", U8>>, <<"th_win", U16>>,
    <<"th_sum", U16>>, <<"th_urp", U16>>>>]

Structs ==
  <<ofp_header, ofp_hello_elem_header, ofp_hello_elem_versionbitmap,
    ofp_hello, ofp_switch_config, ofp_table_mod, ofp_port,
    ofp_switch_features, ofp_port_status, ofp_port_mod, ofp_match,
    ofp_oxm_experimenter_header, ofp_action_header, ofp_action_output,
    ofp_action_mpls_ttl, ofp_action_push, ofp_action_pop_mpls,
    ofp_action_group, ofp_action_nw_ttl, ofp_action_set_field,
    ofp_action_experimenter_header, ofp_instruction,
    ofp_instruction_goto_table, ofp_instruction_write_metadata,
    ofp_instruction_actions, ofp_instruction_meter,
    ofp_instruction_experimenter, ofp_flow_mod, ofp_bucket, ofp_group_mod,
    ofp_packet_out, ofp_packet_in, ofp_flow_removed,
    ofp_meter_band_header, ofp_meter_band_drop,
    ofp_meter_band_dscp_remark, ofp_meter_band_experimenter,
    ofp_meter_mod, ofp_error_msg, ofp_error_experimenter_msg,
    ofp_multipart_request, ofp_multipart_reply, ofp_desc,
    ofp_flow_stats_request, ofp_flow_stats, ofp_aggregate_stats_request,
    ofp_aggregate_stats_reply, ofp_table_feature_prop_header,
    ofp_table_feature_prop_instructions,
    ofp_table_feature_prop_next_tables, ofp_table_feature_prop_actions,
    ofp_table_feature_prop_oxm, ofp_table_feature_prop_experimenter,
    ofp_table_features, ofp_table_stats, ofp_port_stats_request,
    ofp_port_stats, ofp_group_stats_request, ofp_bucket_counter,
    ofp_group_stats, ofp_group_desc, ofp_group_features,
    ofp_meter_multipart_request, ofp_meter_band_stats, ofp_meter_stats,
    ofp_meter_config, ofp_meter_features,
    ofp_experimenter_multipart_header, ofp_experimenter_header,
    ofp_queue_prop_header, ofp_queue_prop_min_rate,
    ofp_queue_prop_max_rate, ofp_queue_prop_experimenter,
    ofp_packet_queue, ofp_queue_get_config_request,
    ofp_queue_get_config_reply, ofp_action_set_queue,
    ofp_queue_stats_request, ofp_queue_stats, ofp_role_request,
    ofp_async_config, sniff_ethernet, sniff_ip, sniff_tcp>>
=============================================================================
