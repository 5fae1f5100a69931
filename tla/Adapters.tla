------------------------------- MODULE Adapters -------------------------------
(***************************************************************************)
(* What each code's adapter declares: the spaces it represents with the unit *)
(* of their first field, the spaces it represents without a unit, and the    *)
(* operators it performs.  A representation package has several modules for  *)
(* one code; a code has them all.                                            *)
(***************************************************************************)
EXTENDS MapElements

\* SpaceRepresentationSpec and OperatorRepresentationSpec.
Adapter(code, units, bare, performs) ==
    [code |-> code, units |-> units, bare |-> bare, performs |-> performs]

\* units.py, JOULE to ANGSTROM: each unit and the dimension it measures.
ModeUnits == {
    <<"joule", "energy">>, <<"kelvin", "temperature">>, <<"linear_THz", "frequency">>,
    <<"angular_THz", "frequency">>, <<"inverse_cm", "frequency">>,
    <<"per_linear_THz", "inverse_frequency">>, <<"linear_THz_squared", "frequency_squared">>,
    <<"J_per_K", "energy_per_temperature">>, <<"eV_per_K", "energy_per_temperature">>,
    <<"J_per_m3_per_K", "energy_per_temperature_per_volume">>,
    <<"J_per_K_per_mol", "energy_per_temperature_per_mole">>,
    <<"angstrom_linear_THz", "length_times_frequency">>,
    <<"km_per_s", "length_times_frequency">>, <<"W_per_m_per_K", "thermal_conductivity">>,
    <<"W_per_K", "thermal_conductance">>, <<"nW_per_K", "thermal_conductance">>,
    <<"W_per_m2_k", "interface_conductance">>, <<"MW_per_m2_k", "interface_conductance">>,
    <<"J_per_mol", "energy_per_mole">>, <<"kJ_per_mol", "energy_per_mole">>,
    <<"eV_per_A3", "energy_per_length_cubed">>, <<"eV_per_A2", "energy_per_length_squared">>,
    <<"Ry_per_bohr2", "energy_per_length_squared">>,
    <<"Ry_per_bohr3", "energy_per_length_cubed">>, <<"J_per_m2", "energy_per_length_squared">>,
    <<"ev", "energy">>, <<"ry", "energy">>, <<"ev_per_atom", "energy">>,
    <<"per_joule", "inverse_energy">>, <<"per_ev", "inverse_energy">>, <<"eV_per_A", "force">>,
    <<"Ry_per_bohr", "force">>, <<"kbar", "energy_per_length_cubed">>,
    <<"GPa", "energy_per_length_cubed">>, <<"Pa", "energy_per_length_cubed">>,
    <<"atm", "energy_per_length_cubed">>, <<"angstrom", "length">> }

\* units.py, ANGSTROM_SQUARED to MM2_PER_S: each unit and the dimension it measures.
TransportUnits == {
    <<"angstrom_squared", "length_squared">>, <<"angstrom_cubed", "volume">>,
    <<"dimensionless", "dimensionless">>, <<"volt", "voltage">>, <<"mu_B", "magnetic_moment">>,
    <<"s_per_m", "electrical_conductivity">>, <<"ms_per_cm", "electrical_conductivity">>,
    <<"siemens", "conductance">>, <<"coulomb", "electric_charge">>, <<"v_per_k", "seebeck">>,
    <<"muv_per_k", "seebeck">>, <<"m2_per_v_s", "mobility">>, <<"cm2_per_v_s", "mobility">>,
    <<"per_kelvin", "thermal_expansivity">>, <<"gram_per_cm3", "mass_density">>,
    <<"kg_per_m3", "mass_density">>, <<"m3_per_mol", "volume_per_mole">>,
    <<"cm3_per_mol", "volume_per_mole">>, <<"w_per_m_k2", "power_factor">>,
    <<"per_m3", "number_density">>, <<"per_cm3", "number_density">>,
    <<"m2_per_s", "diffusivity">>, <<"mm2_per_s", "diffusivity">> }

\* The registry to_operator() looks a unit up in: not every declared unit is in it.
UNITS == {u \in ModeUnits \cup TransportUnits : u[1] \notin {"per_joule", "per_ev"}}

\* thermal_transport/representation/.
thermal_ase == Adapter("ase",
    {}, {"Potential", "Trajectory"}, {"provide_potential"})

thermal_gpumd_md == Adapter("gpumd",
    {<<"PotentialUncertaintyExceedance[method=committee_force_spread]", "dimensionless">>,
     <<"MeanPotentialEnergy", "ev_per_atom">>},
    {"Potential", "Trajectory", "HeatCurrent", "HeatCurrentACF", "VelocityAutocorrelation"},
    {"provide_potential"})

thermal_gpumd_correlations == Adapter("gpumd",
    {},
    {"MeanSquaredDisplacement", "ThermalConductivity[transport_model=green_kubo]",
     "ThermalConductivity[transport_model=hnemd]"},
    {"run_md", "compute_heat_current", "autocorrelate_heat_current",
     "compute_velocity_autocorrelation", "compute_msd", "fourier_to_dos",
     "contract_kappa[transport_model=green_kubo]"})

thermal_gpumd_hnemd == Adapter("gpumd",
    {}, {}, {"contract_kappa[transport_model=hnemd]", "contract_kappa[transport_model=nemd]"})

ipi == Adapter("i-pi",
    {<<"Temperature", "kelvin">>, <<"QuantumKineticEnergy", "ev">>,
     <<"HeatCapacity[method=pimd]", "eV_per_K">>}, {"Trajectory"},
    {"run_md", "sample_quantum_kinetic_energy", "sample_quantum_heat_capacity"})

kaldo_spectra == Adapter("kaldo",
    {<<"Frequency", "linear_THz">>, <<"GroupVelocity", "angstrom_linear_THz">>,
     <<"Linewidth[channel=anharmonic_3ph]", "angular_THz">>, <<"HeatCapacity", "J_per_K">>,
     <<"ThermalConductivity[bte_solver=rta]", "W_per_m_per_K">>,
     <<"ThermalConductivity[bte_solver=direct_inverse]", "W_per_m_per_K">>}, {},
    {"compute_linewidth[channel=anharmonic_3ph]", "compute_heat_capacity"})

kaldo_constants == Adapter("kaldo",
    {<<"ForceConstants[order=3]", "eV_per_A3">>},
    {"Temperature", "ForceConstants[order=2]", "Eigenvectors",
     "MeanFreeDisplacement[bte_solver=rta]", "MeanFreeDisplacement[bte_solver=direct_inverse]"},
    {"compute_force_constants[order=2]", "compute_force_constants[order=3]",
     "solve_bte[bte_solver=direct_inverse]"})

kaldo_harmonic == Adapter("kaldo",
    {},
    {"DynamicalMatrix", "Potential", "VolumetricHeatCapacity", "MolarHeatCapacity",
     "PhononDOS", "PhaseSpace3Phonon"},
    {"provide_potential", "provide_temperature", "compute_dynamical_matrix",
     "compute_dispersion", "compute_group_velocity"})

kaldo_conductivity == Adapter("kaldo",
    {<<"DielectricTensor", "dimensionless">>,
     <<"ThermalConductivity[transport_model=qhgk]", "W_per_m_per_K">>}, {"BareDynamicalMatrix"},
    {"solve_bte[bte_solver=rta]", "contract_kappa[bte_solver=rta]",
     "contract_kappa[bte_solver=direct_inverse]", "contract_volumetric_heat_capacity",
     "contract_molar_heat_capacity", "compute_dos", "compute_phase_space_3phonon",
     "provide_dielectric_tensor", "identity_dm", "apply_nac_correction"})

kaldo_scattering == Adapter("kaldo",
    {<<"HelmholtzFreeEnergy", "eV">>, <<"Linewidth[channel=isotope]", "angular_THz">>,
     <<"Linewidth[channel=boundary]", "angular_THz">>,
     <<"Linewidth[channel=total]", "angular_THz">>, <<"IsotopeAbundances", "dimensionless">>}, {},
    {"compute_kappa[transport_model=qhgk]", "compute_free_energy",
     "provide_isotope_abundances", "compute_isotope_scattering"})

kaldo_localization == Adapter("kaldo",
    {<<"ParticipationRatio", "dimensionless">>, <<"ModalDiffusivity", "mm2_per_s">>}, {},
    {"compute_boundary_scattering", "sum_linewidths"})

thermal_lammps_md == Adapter("lammps",
    {<<"Temperature", "kelvin">>}, {"Potential", "Trajectory", "HeatCurrent"},
    {"provide_potential"})

thermal_lammps_correlations == Adapter("lammps",
    {}, {"HeatCurrentACF", "VelocityAutocorrelation", "MeanSquaredDisplacement"},
    {"run_md", "compute_heat_current", "autocorrelate_heat_current",
     "compute_velocity_autocorrelation", "compute_msd", "fourier_to_dos"})

thermal_lammps_kappa == Adapter("lammps",
    {},
    {"ThermalConductivity[transport_model=green_kubo]",
     "ThermalConductivity[transport_model=nemd]"},
    {"contract_kappa[transport_model=green_kubo]", "contract_kappa[transport_model=nemd]",
     "contract_kappa[transport_model=hnemd]"})

thermal_mp_api == Adapter("mp-api",
    {<<"DielectricTensor", "dimensionless">>}, {}, {})

phono3py_observables == Adapter("phono3py",
    {<<"Frequency", "linear_THz">>, <<"GroupVelocity", "angstrom_linear_THz">>,
     <<"Linewidth[channel=anharmonic_3ph]", "linear_THz">>, <<"HeatCapacity", "eV_per_K">>,
     <<"ThermalConductivity[bte_solver=rta]", "W_per_m_per_K">>,
     <<"ThermalConductivity[bte_solver=direct_inverse]", "W_per_m_per_K">>}, {},
    {"compute_linewidth[channel=anharmonic_3ph]", "compute_heat_capacity",
     "compute_force_constants[order=2]", "compute_force_constants[order=3]",
     "solve_bte[bte_solver=direct_inverse]"})

phono3py_spaces == Adapter("phono3py",
    {<<"ForceConstants[order=3]", "eV_per_A3">>},
    {"Temperature", "ForceConstants[order=2]", "DynamicalMatrix", "Eigenvectors", "Potential",
     "MeanFreeDisplacement[bte_solver=rta]", "MeanFreeDisplacement[bte_solver=direct_inverse]",
     "VolumetricHeatCapacity", "MolarHeatCapacity", "PhononDOS", "Gruneisen",
     "PhaseSpace3Phonon"}, {})

phono3py_edges == Adapter("phono3py",
    {<<"BornCharges", "dimensionless">>}, {},
    {"provide_potential", "provide_temperature", "compute_dynamical_matrix",
     "compute_dispersion", "compute_group_velocity", "solve_bte[bte_solver=rta]",
     "contract_kappa[bte_solver=rta]", "contract_kappa[bte_solver=direct_inverse]",
     "contract_volumetric_heat_capacity", "contract_molar_heat_capacity", "compute_dos",
     "compute_gruneisen", "compute_phase_space_3phonon"})

phono3py_polar == Adapter("phono3py",
    {<<"DielectricTensor", "dimensionless">>, <<"Linewidth[channel=isotope]", "linear_THz">>,
     <<"Linewidth[channel=boundary]", "linear_THz">>,
     <<"Linewidth[channel=total]", "linear_THz">>, <<"IsotopeAbundances", "dimensionless">>},
    {"BareDynamicalMatrix"},
    {"provide_born_charges", "provide_dielectric_tensor", "identity_dm",
     "apply_nac_correction", "provide_isotope_abundances"})

phono3py_wigner == Adapter("phono3py",
    {<<"ThermalConductivity[transport_model=wigner]", "W_per_m_per_K">>,
     <<"ThermalConductivity[transport_model=wigner_populations]", "W_per_m_per_K">>,
     <<"ThermalConductivity[transport_model=wigner_coherences]", "W_per_m_per_K">>,
     <<"CumulativeKappa[wrt=omega]", "W_per_m_per_K">>}, {},
    {"compute_isotope_scattering", "compute_boundary_scattering", "sum_linewidths",
     "compute_kappa[transport_model=wigner_populations]",
     "compute_kappa[transport_model=wigner_coherences]", "combine_kappa_wigner"})

phono3py_cumulative == Adapter("phono3py",
    {<<"CumulativeKappa[wrt=mfp]", "W_per_m_per_K">>}, {},
    {"contract_cumulative_kappa[wrt=omega]", "contract_cumulative_kappa[wrt=mfp]"})

thermal_phonopy_spaces == Adapter("phonopy",
    {<<"Frequency", "linear_THz">>, <<"MolarHeatCapacity", "J_per_K_per_mol">>,
     <<"GroupVelocity", "angstrom_linear_THz">>},
    {"Temperature", "ForceConstants[order=2]", "DynamicalMatrix", "Eigenvectors", "Potential",
     "VolumetricHeatCapacity", "PhononDOS", "Gruneisen"}, {})

thermal_phonopy_edges == Adapter("phonopy",
    {<<"BornCharges", "dimensionless">>, <<"DielectricTensor", "dimensionless">>}, {},
    {"provide_potential", "provide_temperature", "compute_force_constants[order=2]",
     "compute_dynamical_matrix", "compute_dispersion", "compute_group_velocity",
     "compute_heat_capacity", "contract_volumetric_heat_capacity",
     "contract_molar_heat_capacity", "compute_dos", "compute_gruneisen"})

thermal_phonopy_thermodynamics == Adapter("phonopy",
    {<<"MolarHelmholtzFreeEnergy", "kJ_per_mol">>, <<"MolarEntropy", "J_per_K_per_mol">>,
     <<"MolarInternalEnergy", "kJ_per_mol">>}, {"BareDynamicalMatrix"},
    {"provide_born_charges", "provide_dielectric_tensor", "identity_dm",
     "apply_nac_correction", "compute_free_energy", "compute_entropy",
     "compute_internal_energy", "contract_molar_free_energy", "contract_molar_entropy",
     "contract_molar_internal_energy"})

plumed == Adapter("plumed",
    {<<"PotentialOfMeanForce", "kJ_per_mol">>}, {"Trajectory"}, {"sample_pmf"})

thermal_pymatgen == Adapter("pymatgen",
    {<<"Frequency", "linear_THz">>, <<"ForceConstants[order=2]", "eV_per_A2">>,
     <<"BornCharges", "dimensionless">>, <<"DielectricTensor", "dimensionless">>}, {"PhononDOS"},
    {})

thermal_qe_spaces == Adapter("qe",
    {<<"ForceConstants[order=2]", "Ry_per_bohr2">>, <<"Frequency", "inverse_cm">>,
     <<"Eigenvectors", "dimensionless">>, <<"BornCharges", "dimensionless">>,
     <<"DielectricTensor", "dimensionless">>},
    {"Potential", "BareDynamicalMatrix", "DynamicalMatrix", "PhononDOS"}, {})

thermal_qe_edges == Adapter("qe",
    {}, {},
    {"compute_force_constants[order=2]", "compute_dynamical_matrix", "apply_nac_correction",
     "compute_dispersion", "compute_dos", "provide_born_charges", "provide_dielectric_tensor"})

qe_d3q_spaces == Adapter("qe-d3q",
    {<<"ForceConstants[order=2]", "Ry_per_bohr2">>,
     <<"ForceConstants[order=3]", "Ry_per_bohr3">>,
     <<"Linewidth[channel=anharmonic_3ph]", "inverse_cm">>,
     <<"ThermalConductivity[bte_solver=rta]", "W_per_m_per_K">>,
     <<"ThermalConductivity[bte_solver=direct_inverse]", "W_per_m_per_K">>}, {},
    {"compute_force_constants[order=3]"})

qe_d3q_edges == Adapter("qe-d3q",
    {}, {}, {"compute_linewidth[channel=anharmonic_3ph]", "solve_bte[bte_solver=direct_inverse]"})

shengbte_observables == Adapter("shengbte",
    {<<"Frequency", "angular_THz">>, <<"GroupVelocity", "km_per_s">>,
     <<"Linewidth[channel=anharmonic_3ph]", "angular_THz">>,
     <<"VolumetricHeatCapacity", "J_per_m3_per_K">>,
     <<"ThermalConductivity[bte_solver=rta]", "W_per_m_per_K">>,
     <<"ThermalConductivity[bte_solver=direct_inverse]", "W_per_m_per_K">>}, {},
    {"compute_force_constants[order=2]", "compute_force_constants[order=3]"})

shengbte_bte == Adapter("shengbte",
    {<<"ForceConstants[order=3]", "eV_per_A3">>},
    {"Temperature", "ForceConstants[order=2]", "MolarHeatCapacity", "PhononDOS", "Gruneisen"},
    {"compute_linewidth[channel=anharmonic_3ph]", "solve_bte[bte_solver=direct_inverse]"})

shengbte_edges == Adapter("shengbte",
    {}, {"PhaseSpace3Phonon"},
    {"provide_potential", "provide_temperature", "compute_dynamical_matrix",
     "compute_dispersion", "compute_group_velocity", "solve_bte[bte_solver=rta]",
     "contract_kappa[bte_solver=rta]", "contract_kappa[bte_solver=direct_inverse]",
     "contract_volumetric_heat_capacity", "compute_dos", "compute_gruneisen",
     "compute_phase_space_3phonon"})

shengbte_scattering == Adapter("shengbte",
    {<<"BornCharges", "dimensionless">>, <<"DielectricTensor", "dimensionless">>,
     <<"Linewidth[channel=isotope]", "angular_THz">>,
     <<"Linewidth[channel=boundary]", "angular_THz">>, <<"IsotopeAbundances", "dimensionless">>},
    {},
    {"provide_born_charges", "provide_dielectric_tensor", "identity_dm",
     "apply_nac_correction", "compute_isotope_scattering", "compute_boundary_scattering",
     "provide_isotope_abundances"})

shengbte_cumulative == Adapter("shengbte",
    {<<"CumulativeKappa[wrt=omega]", "W_per_m_per_K">>,
     <<"CumulativeKappa[wrt=mfp]", "W_per_m_per_K">>}, {},
    {"sum_linewidths", "contract_cumulative_kappa[wrt=omega]",
     "contract_cumulative_kappa[wrt=mfp]"})

thermal_vasp == Adapter("vasp",
    {<<"BornCharges", "dimensionless">>, <<"DielectricTensor", "dimensionless">>}, {}, {})

thermal_xtb == Adapter("xtb",
    {<<"MolarHeatCapacity", "J_per_K_per_mol">>}, {}, {})

\* dft_ground_state/representation/.
dft_ase == Adapter("ase",
    {}, {"Structure"}, {})

fairchem == Adapter("fairchem",
    {<<"TotalEnergy", "ev">>, <<"Forces", "eV_per_A">>, <<"Stress", "eV_per_A3">>}, {"Potential"},
    {"solve_ground_state"})

dft_gpumd == Adapter("gpumd",
    {<<"PotentialEnergyFitError", "ev_per_atom">>, <<"PotentialForceFitError", "eV_per_A">>,
     <<"PotentialVirialFitError", "ev_per_atom">>}, {}, {})

mace_spaces == Adapter("mace",
    {<<"TotalEnergy", "ev">>, <<"Forces", "eV_per_A">>, <<"Stress", "eV_per_A3">>}, {"Potential"},
    {})

mace_edges == Adapter("mace",
    {}, {}, {"solve_ground_state"})

matgl_spaces == Adapter("matgl",
    {<<"TotalEnergy", "ev">>, <<"Forces", "eV_per_A">>, <<"Stress", "eV_per_A3">>,
     <<"MagneticMoment", "mu_B">>}, {"Potential"}, {})

matgl_edges == Adapter("matgl",
    {}, {}, {"solve_ground_state"})

dft_mp_api == Adapter("mp-api",
    {<<"MagneticMoment", "mu_B">>, <<"BandGap", "ev">>}, {"Structure"}, {})

dft_pymatgen == Adapter("pymatgen",
    {<<"TotalEnergy", "ev">>, <<"Stress", "eV_per_A3">>, <<"MagneticMoment", "mu_B">>},
    {"Structure"}, {"compute_magnetic_moments"})

dft_qe == Adapter("qe",
    {<<"TotalEnergy", "ry">>, <<"Forces", "Ry_per_bohr">>, <<"Stress", "kbar">>}, {"Structure"},
    {"solve_ground_state"})

dft_vasp_spaces == Adapter("vasp",
    {<<"TotalEnergy", "ev">>, <<"Forces", "eV_per_A">>, <<"Stress", "kbar">>,
     <<"MagneticMoment", "mu_B">>, <<"BandGap", "ev">>}, {"Structure"}, {})

dft_vasp_edges == Adapter("vasp",
    {<<"ElectronicDOS", "per_ev">>}, {},
    {"solve_ground_state", "compute_band_gap", "compute_forces_hf", "compute_stress_cell"})

\* mechanics/representation/.
mechanics_lammps == Adapter("lammps",
    {<<"ElasticConstants", "GPa">>, <<"Pressure", "GPa">>, <<"MassDensity", "gram_per_cm3">>}, {},
    {"compute_elastic_constants", "contract_density"})

mat_elasticity == Adapter("mat-elasticity",
    {<<"ElasticConstants", "GPa">>, <<"BulkModulus", "GPa">>, <<"ShearModulus", "GPa">>,
     <<"YoungsModulus", "GPa">>, <<"PoissonRatio", "dimensionless">>}, {}, {})

mat_equation_of_state == Adapter("mat-equation-of-state",
    {<<"BulkModulus", "GPa">>}, {}, {"compute_bulk_modulus_eos"})

mechanics_mp_api == Adapter("mp-api",
    {<<"ElasticConstants", "GPa">>, <<"BulkModulus", "GPa">>, <<"ShearModulus", "GPa">>,
     <<"YoungsModulus", "Pa">>, <<"PoissonRatio", "dimensionless">>}, {}, {})

mechanics_pymatgen == Adapter("pymatgen",
    {<<"ElasticConstants", "eV_per_A3">>, <<"BulkModulus", "eV_per_A3">>,
     <<"ShearModulus", "eV_per_A3">>, <<"YoungsModulus", "Pa">>,
     <<"PoissonRatio", "dimensionless">>}, {},
    {"compute_elastic_constants", "contract_youngs_modulus", "contract_poisson_ratio"})

mechanics_qe == Adapter("qe",
    {<<"BulkModulus", "kbar">>}, {}, {"compute_bulk_modulus_eos"})

mechanics_vasp == Adapter("vasp",
    {<<"ElasticConstants", "kbar">>}, {}, {"compute_elastic_constants"})

\* stability/representation/.
mat_surface_adsorption == Adapter("mat-surface-adsorption",
    {<<"AdsorptionEnergy", "ev">>}, {}, {"compute_adsorption_energy"})

stability_mp_api == Adapter("mp-api",
    {<<"FormationEnergy", "ev_per_atom">>, <<"EnergyAboveHull", "ev_per_atom">>,
     <<"SurfaceEnergy", "J_per_m2">>, <<"Voltage", "volt">>}, {}, {})

stability_pymatgen_spaces == Adapter("pymatgen",
    {<<"FormationEnergy", "ev_per_atom">>, <<"EnergyAboveHull", "ev_per_atom">>,
     <<"SurfaceEnergy", "J_per_m2">>, <<"Voltage", "volt">>}, {},
    {"compute_formation_energy", "compute_energy_above_hull", "compute_surface_energy"})

stability_pymatgen_voltage == Adapter("pymatgen",
    {<<"GrainBoundaryEnergy", "J_per_m2">>}, {},
    {"compute_intercalation_voltage", "compute_grain_boundary_energy"})

rxn_network == Adapter("rxn-network",
    {<<"ReactionEnergy", "ev">>}, {}, {})

stability_xtb == Adapter("xtb",
    {<<"ReactionEnergy", "eV">>}, {}, {})

\* thermochemistry/representation/.
pycalphad_spaces == Adapter("pycalphad",
    {<<"MolarGibbsEnergy", "J_per_mol">>, <<"MolarEnthalpy", "J_per_mol">>,
     <<"ChemicalPotential", "J_per_mol">>, <<"PhaseFraction", "dimensionless">>,
     <<"TransitionTemperature", "kelvin">>}, {"AssessedDatabase"}, {})

pycalphad_edges == Adapter("pycalphad",
    {<<"CalphadMolarEntropy", "J_per_K_per_mol">>}, {},
    {"solve_equilibrium", "compute_molar_enthalpy", "compute_calphad_entropy",
     "compute_chemical_potentials", "compute_phase_fractions"})

pycalphad_transition == Adapter("pycalphad",
    {}, {}, {"compute_transition_temperature"})

\* quasiharmonic/representation/.
quasiharmonic_phonopy_gibbs == Adapter("phonopy",
    {<<"QHAGibbsEnergy", "kJ_per_mol">>, <<"ThermalExpansion", "per_kelvin">>,
     <<"HeatCapacityConstantP", "J_per_K_per_mol">>, <<"ThermalGruneisen", "dimensionless">>,
     <<"BulkModulus", "GPa">>}, {},
    {"compute_qha_gibbs", "compute_bulk_modulus_qha", "compute_thermal_expansion"})

quasiharmonic_phonopy_identities == Adapter("phonopy",
    {}, {}, {"compute_heat_capacity_p", "contract_thermal_gruneisen"})

\* molecular/representation/.
openmm == Adapter("openmm",
    {<<"Temperature", "kelvin">>, <<"Pressure", "atm">>, <<"TotalEnergy", "ev">>}, {"Trajectory"},
    {})

orca_spaces == Adapter("orca",
    {<<"TotalEnergy", "ev">>, <<"Forces", "eV_per_A">>, <<"HOMOLUMOGap", "ev">>,
     <<"ReactionBarrier[construction=neb_mep]", "ev">>, <<"MolecularFrequency", "inverse_cm">>},
    {}, {})

orca_edges == Adapter("orca",
    {}, {},
    {"compute_homo_lumo_gap", "compute_reaction_barrier", "compute_molecular_frequencies",
     "compute_bond_dissociation"})

\* electronic_transport/representation/.
amset_spaces == Adapter("amset",
    {<<"StaticDielectricTensor", "dimensionless">>,
     <<"ElectricalConductivity[carrier=electronic]", "s_per_m">>,
     <<"SeebeckCoefficient", "muv_per_k">>,
     <<"ElectronicThermalConductivity", "W_per_m_per_K">>, <<"CarrierMobility", "cm2_per_v_s">>},
    {}, {"compute_static_dielectric"})

amset_edges == Adapter("amset",
    {}, {},
    {"compute_electronic_conductivity", "compute_seebeck",
     "compute_electronic_thermal_conductivity", "compute_carrier_mobility"})

\* materials/representation/.
diffcsp == Adapter("diffcsp",
    {}, {"Structure"}, {})

mat_diffusion_analysis == Adapter("mat-diffusion-analysis",
    {<<"Diffusivity", "cm^2/s">>, <<"ActivationEnergy", "eV">>}, {}, {})

mattergen == Adapter("mattergen",
    {}, {"Structure"}, {})

materials_pymatgen == Adapter("pymatgen",
    {<<"Diffusivity", "cm^2/s">>, <<"ActivationEnergy", "ev">>,
     <<"MeanSquaredDisplacement", "A^2">>}, {}, {})

pymatgen_analysis_diffusion == Adapter("pymatgen-analysis-diffusion",
    {<<"Diffusivity", "cm^2/s">>, <<"MeanSquaredDisplacement", "A^2">>,
     <<"ActivationEnergy", "ev">>, <<"ElectricalConductivity[carrier=ionic]", "ms_per_cm">>,
     <<"CarrierDensity", "per_cm3">>}, {}, {})

smol == Adapter("smol",
    {<<"ConfigurationalEnergy", "ev">>}, {"Potential"}, {})

\* composites/representation/.
composites_gpumd == Adapter("gpumd",
    {}, {"InterfaceConductance[transport_model=nemd]"}, {})

composites_openmaterials_ai == Adapter("openmaterials-ai",
    {<<"ThermalConductivity[effective_medium=nan,orientation=random]", "W_per_m_per_K">>,
     <<"ThermalConductivity[effective_medium=nan,orientation=aligned]", "W_per_m_per_K">>}, {}, {})

\* analog_device_metrology/representation/.
ngspice == Adapter("ngspice",
    {<<"ConductanceState", "siemens">>, <<"DotProductError", "dimensionless">>}, {}, {})

\* cure_kinetics/representation/.
cure_openmaterials_ai == Adapter("openmaterials-ai",
    {<<"CureConversion", "dimensionless">>, <<"GlassTransitionTemperature", "kelvin">>}, {}, {})

AllAdapters == {
    thermal_ase, thermal_gpumd_md, thermal_gpumd_correlations, thermal_gpumd_hnemd, ipi,
    kaldo_spectra, kaldo_constants, kaldo_harmonic, kaldo_conductivity, kaldo_scattering,
    kaldo_localization, thermal_lammps_md, thermal_lammps_correlations, thermal_lammps_kappa,
    thermal_mp_api, phono3py_observables, phono3py_spaces, phono3py_edges, phono3py_polar,
    phono3py_wigner, phono3py_cumulative, thermal_phonopy_spaces, thermal_phonopy_edges,
    thermal_phonopy_thermodynamics, plumed, thermal_pymatgen, thermal_qe_spaces,
    thermal_qe_edges, qe_d3q_spaces, qe_d3q_edges, shengbte_observables, shengbte_bte,
    shengbte_edges, shengbte_scattering, shengbte_cumulative, thermal_vasp, thermal_xtb,
    dft_ase, fairchem, dft_gpumd, mace_spaces, mace_edges, matgl_spaces, matgl_edges,
    dft_mp_api, dft_pymatgen, dft_qe, dft_vasp_spaces, dft_vasp_edges, mechanics_lammps,
    mat_elasticity, mat_equation_of_state, mechanics_mp_api, mechanics_pymatgen, mechanics_qe,
    mechanics_vasp, mat_surface_adsorption, stability_mp_api, stability_pymatgen_spaces,
    stability_pymatgen_voltage, rxn_network, stability_xtb, pycalphad_spaces, pycalphad_edges,
    pycalphad_transition, quasiharmonic_phonopy_gibbs, quasiharmonic_phonopy_identities,
    openmm, orca_spaces, orca_edges, amset_spaces, amset_edges, diffcsp,
    mat_diffusion_analysis, mattergen, materials_pymatgen, pymatgen_analysis_diffusion, smol,
    composites_gpumd, composites_openmaterials_ai, ngspice, cure_openmaterials_ai }
=============================================================================
